---- MODULE Spec2Model ----
(***************************************************************************)
(* Model of the Kotlin Gazelle extension: the import resolution engine     *)
(* (gazelle/kotlin/resolver.go) with the identifier value type it walks    *)
(* (gazelle/kotlin/parser/parser.go), the native-import predicate          *)
(* (gazelle/kotlin/kotlin.go) and rule generation with its pool of parse   *)
(* workers (gazelle/kotlin/generate.go).                                   *)
(*                                                                         *)
(* The specifications:                                                     *)
(*   SpecImport  one call of resolveImport, followed through its recursive *)
(*               calls, with every collaborator answer it was given kept   *)
(*               in the state;                                             *)
(*   Spec        one call of Resolve on a rule: the implicit dependency of *)
(*               a test, the batch loop of resolveImports in any iteration *)
(*               order of the import map, and the deps attribute;          *)
(*   SpecIdentifier  Identifier values as Go slices over backing arrays,   *)
(*               made by Parent and Child;                                 *)
(*   SpecGenerate    one call of GenerateRules: the parse results arrive   *)
(*               in any order, are classified into targets, and the rules  *)
(*               are generated;                                            *)
(*   SpecParse   the goroutines of parseFiles and the range loop that      *)
(*               receives their results, SpecParseFair with fairness;      *)
(*   SpecStart   the start of parseFiles, for directories of many files:   *)
(*               the loop that starts the worker goroutines;               *)
(*   SpecConfig  KotlinConfig objects made by NewChild and changed by      *)
(*               SetGenerationEnabled (gazelle/kotlin/kotlinconfig).       *)
(***************************************************************************)
EXTENDS Integers, Sequences, FiniteSets, TLC

VARIABLES
    pc,              \* position of the run
    mavenConfigured, \* kt.mavenResolver != nil
    orig,            \* identifier the outermost resolveImport call was given
    identifier,      \* identifier of the current (recursive) resolveImport call
    examined,        \* number of resolveImport invocations of the current call chain
    result,          \* (ResolutionType, *label.Label, error) last returned by resolveImport
    answers,         \* what the collaborators answered, by identifier literal
    caller,          \* who called resolveImport: "test" (Resolve) or "batch" (resolveImports)
    kind,            \* r.Kind()
    importData,      \* the target aggregate attached to the rule
    remaining,       \* keys of target.Imports the range loop has not yielded yet
    current,         \* key of the import statement being resolved by the loop
    deps,            \* the LabelSet built by resolveImports
    batch,           \* (deps, err) returned by resolveImports
    extraDeps,       \* Resolve's extraDeps
    attrs,           \* the attributes Resolve has set on the rule
    printed,         \* unresolved-import diagnostics written to stdout, in order
    outcomes,        \* what resolveImport returned to the loop, by import key
    heap,            \* the backing arrays of the parts slices of the identifiers
    ids,             \* the Identifier values made so far, in order of creation
    nilParents,      \* the identifiers Parent() returned nil for
    gpc,             \* position of GenerateRules
    genArgs,         \* args of GenerateRules: the config, the build file, the files
    arriving,        \* files whose parse result GenerateRules has not received yet
    targets,         \* libTarget, binTargets and testTargets
    emitLeft,        \* binary and test targets the emit loops have not visited yet
    genResult,       \* the language.GenerateResult being built
    sources,         \* the source files of the directory, in the order of the tree set
    disk,            \* what parseFile returns for each source file
    iterator,        \* number of paths the dispatcher has sent
    sourcePathChannel, \* "open" or "closed"
    resultsChannel,  \* times it was closed, sends made on it after a close
    workers,         \* per worker goroutine: its position, sourcePath and r
    wg,              \* counter of the sync.WaitGroup
    watcher,         \* position of the goroutine that waits for the workers
    taken,           \* log of the receives from sourcePathChannel
    received,        \* log of the receives from resultsChannel
    consumer,        \* position of the range loop over resultsChannel
    cfgs             \* the KotlinConfig objects made so far

resolverVars ==
    <<pc, mavenConfigured, orig, identifier, examined, result, answers, caller,
      kind, importData, remaining, current, deps, batch, extraDeps, attrs,
      printed, outcomes>>

identVars == <<heap, ids, nilParents>>

genVars == <<gpc, genArgs, arriving, targets, emitLeft, genResult>>

poolVars == <<sources, disk, iterator, sourcePathChannel, resultsChannel,
              workers, wg, watcher, taken, received, consumer>>

configVars == <<cfgs>>

\* the variables the resolver does not touch
otherVars == <<identVars, genVars, poolVars, configVars>>

vars == <<resolverVars, identVars, genVars, poolVars, configVars>>

resolveVars == <<kind, importData, remaining, current, deps, batch, extraDeps,
                 attrs, printed, outcomes>>

-----------------------------------------------------------------------------
(* Bounds of the model *)

\* longest identifier, in components
MaxParts == 3
\* most import statements in one target aggregate
MaxImports == 2

\* Go's nil: a nil pointer or label, a nil error, a nil *LabelSet
Nil == "nil"
NoError == [nil |-> "error"]
NilSet == [nil |-> "LabelSet"]
NilIdentifier == [nil |-> "Identifier"]

-----------------------------------------------------------------------------
(* language.go, resolver.go: names and the ResolutionType enumeration *)

LanguageName == "kotlin"
KtJvmLibrary == "kt_jvm_library"
KtJvmBinary == "kt_jvm_binary"
KtJvmTest == "kt_jvm_test"

Resolution_Error == -1
Resolution_None == 0
Resolution_NotFound == 1
Resolution_Label == 2
Resolution_NativeKotlin == 3

-----------------------------------------------------------------------------
(* parser.go: Identifier, a struct holding a sequence of simple identifiers *)

\* the simple identifiers identifiers are built from
SimpleNames == {"kotlin", "kotlinx", "a", "b"}

RECURSIVE SeqsUpTo(_, _)
SeqsUpTo(S, n) ==
    IF n = 0 THEN {<<>>}
    ELSE LET shorter == SeqsUpTo(S, n - 1)
         IN  shorter \cup {Append(s, x) : s \in shorter, x \in S}

Identifier(parts) == [parts |-> parts]

\* every identifier of 1..MaxParts components
Identifiers == {Identifier(parts) : parts \in SeqsUpTo(SimpleNames, MaxParts) \ {<<>>}}

\* strings.Join(strs, ".")
RECURSIVE Join(_)
Join(strs) ==
    IF Len(strs) = 0 THEN ""
    ELSE IF Len(strs) = 1 THEN strs[1]
    ELSE strs[1] \o "." \o Join(Tail(strs))

Literal(i) == Join(i.parts)

\* Parent stripping the only component too
Parent_StripsLast(i) ==
    IF Len(i.parts) <= 0 THEN NilIdentifier
    ELSE Identifier(SubSeq(i.parts, 1, Len(i.parts) - 1))

Parent(i) ==
    IF Len(i.parts) <= 1 THEN NilIdentifier
    ELSE Identifier(SubSeq(i.parts, 1, Len(i.parts) - 1))

-----------------------------------------------------------------------------
(* kotlin.go: IsNativeImport *)

\* strings.HasPrefix
HasPrefix(s, prefix) ==
    /\ Len(s) >= Len(prefix)
    /\ SubSeq(s, 1, Len(prefix)) = prefix

\* IsNativeImport without the kotlinx prefix
IsNativeImport_NoKotlinx(impt, isStdlib) ==
    IF HasPrefix(impt, "kotlin.") THEN TRUE
    ELSE IF isStdlib THEN TRUE
    ELSE FALSE

\* isStdlib is the answer of jvm_java.IsStdlib for the literal
IsNativeImport(impt, isStdlib) ==
    IF HasPrefix(impt, "kotlin.") \/ HasPrefix(impt, "kotlinx.") THEN TRUE
    ELSE IF isStdlib THEN TRUE
    ELSE FALSE

-----------------------------------------------------------------------------
(* The collaborators of resolveImport and what they can answer *)

\* the label of the rule being resolved (fromLabel)
From == "//from:from"
LabelOne == "//lib:one"
LabelTwo == "//lib:two"
LabelMaven == "@maven//:artifact"

\* resolve.FindResult, with FindResult.IsSelfImport
FindResult(l) == [Label |-> l, Embeds |-> {}]
IsSelfImport(match, from) == match.Label = from \/ from \in match.Embeds

\* ix.FindRulesByImportWithConfig: no rule, or any of the rule being resolved
\* and two other rules, each at most once
IndexAnswers ==
    { SelectSeq(<<FindResult(From), FindResult(LabelOne), FindResult(LabelTwo)>>,
                LAMBDA m : m.Label \in S) : S \in SUBSET {From, LabelOne, LabelTwo} }

\* resolve.FindRuleWithOverride: no directive, or a directive naming a label
OverrideAnswers == {Nil, LabelOne, From}

\* (*mavenResolver).Resolve: (label, nil) or (_, error)
MavenError == "no artifact exports the package"
MavenAnswers(configured) ==
    IF configured
    THEN {[label |-> LabelMaven, err |-> Nil], [label |-> Nil, err |-> MavenError]}
    ELSE {[label |-> Nil, err |-> Nil]}

\* the answers of the four collaborators for one identifier literal
Answers(configured) ==
    [override : OverrideAnswers, matches : IndexAnswers,
     stdlib : BOOLEAN, maven : MavenAnswers(configured)]

-----------------------------------------------------------------------------------------------------------------------------------------------------
(* resolver.go: resolveImport *)

importSpecForIdentifier(id) == [Lang |-> LanguageName, Imp |-> Literal(id)]

targetListFromResults(results) == [i \in 1..Len(results) |-> results[i].Label]

\* the three values resolveImport returns
Outcome(resolutionType, label, err) ==
    [type |-> resolutionType, label |-> label, err |-> err]
\* a step of resolveImport that gave no answer
NoAnswer == [answered |-> FALSE]

\* Gazelle overrides: a resolve directive for the literal
overrideStep(a) ==
    IF a.override # Nil
    THEN Outcome(Resolution_Label, a.override, NoError)
    ELSE NoAnswer

\* indexStep taking the first of several candidates
indexStep_PicksFirst(id, fromLabel, importContext, a) ==
    IF Len(a.matches) > 0
    THEN LET filteredMatches ==
                 SelectSeq(a.matches, LAMBDA m : ~IsSelfImport(m, fromLabel))
         IN  IF Len(filteredMatches) = 0
             THEN Outcome(Resolution_None, Nil, NoError)
             ELSE Outcome(Resolution_Label, filteredMatches[1].Label, NoError)
    ELSE NoAnswer

\* indexStep without the removal of the rule being resolved
indexStep_KeepsSelf(id, fromLabel, importContext, a) ==
    IF Len(a.matches) > 0
    THEN IF Len(a.matches) > 1
         THEN Outcome(Resolution_Error, Nil,
                      [identifier |-> Literal(id),
                       from |-> importContext,
                       targets |-> targetListFromResults(a.matches),
                       fix |-> "gazelle:resolve"])
         ELSE Outcome(Resolution_Label, a.matches[1].Label, NoError)
    ELSE NoAnswer

\* indexStep returning the first match instead of the first match left
indexStep_FirstMatch(id, fromLabel, importContext, a) ==
    IF Len(a.matches) > 0
    THEN LET filteredMatches ==
                 SelectSeq(a.matches, LAMBDA m : ~IsSelfImport(m, fromLabel))
         IN  IF Len(filteredMatches) > 1
             THEN Outcome(Resolution_Error, Nil,
                          [identifier |-> Literal(id),
                           from |-> importContext,
                           targets |-> targetListFromResults(a.matches),
                           fix |-> "gazelle:resolve"])
             ELSE IF Len(filteredMatches) = 0
             THEN Outcome(Resolution_None, Nil, NoError)
             ELSE Outcome(Resolution_Label, a.matches[1].Label, NoError)
    ELSE NoAnswer

\* the rules the index holds for the literal, the rule being resolved removed
indexStep(id, fromLabel, importContext, a) ==
    IF Len(a.matches) > 0
    THEN LET filteredMatches ==
                 SelectSeq(a.matches, LAMBDA m : ~IsSelfImport(m, fromLabel))
         IN  IF Len(filteredMatches) > 1
             THEN Outcome(Resolution_Error, Nil,
                          [identifier |-> Literal(id),
                           from |-> importContext,
                           targets |-> targetListFromResults(a.matches),
                           fix |-> "gazelle:resolve"])
             ELSE IF Len(filteredMatches) = 0
             THEN Outcome(Resolution_None, Nil, NoError)
             ELSE Outcome(Resolution_Label, filteredMatches[1].Label, NoError)
    ELSE NoAnswer

\* a native import answered with a label as well
nativeStep_WithLabel(id, a) ==
    IF IsNativeImport(Literal(id), a.stdlib)
    THEN Outcome(Resolution_NativeKotlin, LabelMaven, NoError)
    ELSE NoAnswer

\* Native kotlin imports
nativeStep(id, a) ==
    IF IsNativeImport(Literal(id), a.stdlib)
    THEN Outcome(Resolution_NativeKotlin, Nil, NoError)
    ELSE NoAnswer

\* mavenStep returning the error of a failed lookup
mavenStep_PropagatesError(haveMaven, a) ==
    IF haveMaven
    THEN IF a.maven.err = Nil
         THEN Outcome(Resolution_Label, a.maven.label, NoError)
         ELSE Outcome(Resolution_Error, Nil, [message |-> a.maven.err])
    ELSE NoAnswer

\* Maven imports: skipped without a resolver, a failed lookup is only logged
mavenStep(haveMaven, a) ==
    IF haveMaven /\ a.maven.err = Nil
    THEN Outcome(Resolution_Label, a.maven.label, NoError)
    ELSE NoAnswer

\* the first step, in the order of the code, that gives an answer
FirstAnswer(steps) ==
    LET answered == SelectSeq(steps, LAMBDA r : r # NoAnswer)
    IN  IF Len(answered) = 0 THEN NoAnswer ELSE answered[1]

\* resolveImport asking the index before the override directives
resolveImport_IndexBeforeOverride(id, fromLabel, importContext, haveMaven, a) ==
    LET found == FirstAnswer(<<indexStep(id, fromLabel, importContext, a),
                               overrideStep(a),
                               nativeStep(id, a),
                               mavenStep(haveMaven, a)>>)
    IN  IF found # NoAnswer THEN found
        ELSE IF Parent(id) = NilIdentifier THEN Outcome(Resolution_NotFound, Nil, NoError)
        ELSE NoAnswer

\* resolveImport without the retry on the parent identifier
resolveImport_NoWalkUp(id, fromLabel, importContext, haveMaven, a) ==
    LET found == FirstAnswer(<<overrideStep(a),
                               indexStep(id, fromLabel, importContext, a),
                               nativeStep(id, a),
                               mavenStep(haveMaven, a)>>)
    IN  IF found # NoAnswer THEN found
        ELSE Outcome(Resolution_NotFound, Nil, NoError)

\* resolveImport asking the artifact resolver before the native check
resolveImport_MavenBeforeNative(id, fromLabel, importContext, haveMaven, a) ==
    LET found == FirstAnswer(<<overrideStep(a),
                               indexStep(id, fromLabel, importContext, a),
                               mavenStep(haveMaven, a),
                               nativeStep(id, a)>>)
    IN  IF found # NoAnswer THEN found
        ELSE IF Parent(id) = NilIdentifier THEN Outcome(Resolution_NotFound, Nil, NoError)
        ELSE NoAnswer

\* one invocation of resolveImport on id, given the collaborators' answers a
\* for id's literal: what it returns, NoAnswer when it goes on to call itself
\* on id's parent
resolveImport(id, fromLabel, importContext, haveMaven, a) ==
    LET found == FirstAnswer(<<overrideStep(a),
                               indexStep(id, fromLabel, importContext, a),
                               nativeStep(id, a),
                               mavenStep(haveMaven, a)>>)
    IN  IF found # NoAnswer THEN found
        ELSE IF Parent(id) = NilIdentifier THEN Outcome(Resolution_NotFound, Nil, NoError)
        ELSE NoAnswer

\* the collaborators resolveImport calls for id when their answers are a: the
\* later ones are not called once an earlier one has answered, and
\* IsNativeImport does not call IsStdlib for a literal with a kotlin prefix
Asked(id, haveMaven, a) ==
    {"override"}
    \cup (IF overrideStep(a) = NoAnswer THEN {"matches"} ELSE {})
    \cup (IF /\ overrideStep(a) = NoAnswer
             /\ Len(a.matches) = 0
             /\ ~IsNativeImport(Literal(id), FALSE)
          THEN {"stdlib"} ELSE {})
    \cup (IF /\ overrideStep(a) = NoAnswer
             /\ Len(a.matches) = 0
             /\ nativeStep(id, a) = NoAnswer
             /\ haveMaven
          THEN {"maven"} ELSE {})

\* a record of the calls made for a literal: every answer, or the answers of
\* the collaborators that were called only
Everything(id, haveMaven, a) == [asked |-> DOMAIN a, a |-> a]
CallsMade(id, haveMaven, a) ==
    LET asked == Asked(id, haveMaven, a)
        unasked == [override |-> Nil, matches |-> <<>>, stdlib |-> FALSE,
                    maven |-> [label |-> Nil, err |-> Nil]]
    IN  [asked |-> asked,
         a |-> [f \in DOMAIN a |-> IF f \in asked THEN a[f] ELSE unasked[f]]]

\* the answers the collaborators can give for a literal: they are repeatable,
\* so a collaborator that was asked about the literal before answers the same
AnswersFor(lit) ==
    IF lit \in DOMAIN answers
    THEN {a \in Answers(mavenConfigured) :
             \A f \in answers[lit].asked : a[f] = answers[lit].a[f]}
    ELSE Answers(mavenConfigured)

\* an invocation of resolveImport: with an answer the call chain returns to
\* its caller, otherwise it calls itself on the parent identifier. The answers
\* for the literals in keep are remembered, all of them or the calls made only
Invoke(keep, all, returnTo) ==
    /\ pc = "resolveImport"
    /\ LET lit == Literal(identifier)
       IN  \E a \in AnswersFor(lit) :
             LET r == resolveImport(identifier, From, caller, mavenConfigured, a)
             IN  /\ answers' = IF lit \in keep /\ lit \notin DOMAIN answers
                               THEN answers @@
                                    (lit :> IF all
                                            THEN Everything(identifier, mavenConfigured, a)
                                            ELSE CallsMade(identifier, mavenConfigured, a))
                               ELSE answers
                 /\ IF r = NoAnswer
                    THEN /\ identifier' = Parent(identifier)
                         /\ examined' = examined + 1
                         /\ UNCHANGED <<pc, result>>
                    ELSE /\ result' = r
                         /\ pc' = returnTo
                         /\ UNCHANGED <<identifier, examined>>
    /\ UNCHANGED <<mavenConfigured, orig, caller>>

-----------------------------------------------------------------------------
(* The parts of the model a specification does not run stay as they start *)

\* no Identifier value was made
NoIdentifiers == heap = <<>> /\ ids = <<>> /\ nilParents = {}

\* GenerateRules is not run
NoGeneration ==
    /\ gpc = "idle"
    /\ genArgs = <<>>
    /\ arriving = {}
    /\ targets = <<>>
    /\ emitLeft = <<>>
    /\ genResult = <<>>

\* parseFiles is not run
NoPool ==
    /\ sources = <<>>
    /\ disk = <<>>
    /\ iterator = 0
    /\ sourcePathChannel = "idle"
    /\ resultsChannel = <<>>
    /\ workers = <<>>
    /\ wg = 0
    /\ watcher = "idle"
    /\ taken = <<>>
    /\ received = <<>>
    /\ consumer = "idle"

\* no KotlinConfig was made
NoConfigs == cfgs = <<>>

\* the resolver is not run
NoResolver ==
    /\ pc = "idle"
    /\ mavenConfigured = FALSE
    /\ orig = NilIdentifier
    /\ identifier = NilIdentifier
    /\ examined = 0
    /\ result = NoAnswer
    /\ answers = <<>>
    /\ caller = Nil
    /\ kind = Nil
    /\ importData = [Imports |-> <<>>, Package |-> NilIdentifier]
    /\ remaining = {}
    /\ current = Nil
    /\ deps = NilSet
    /\ batch = [deps |-> NilSet, err |-> NoError]
    /\ extraDeps = <<>>
    /\ attrs = <<>>
    /\ printed = <<>>
    /\ outcomes = <<>>

-----------------------------------------------------------------------------
(* SpecImport: one call of resolveImport *)

InitImport ==
    /\ pc = "resolveImport"
    /\ mavenConfigured \in BOOLEAN
    /\ orig \in Identifiers
    /\ identifier = orig
    /\ examined = 1
    /\ result = NoAnswer
    /\ answers = <<>>
    /\ caller = "call"
    /\ kind = Nil
    /\ importData = [Imports |-> <<>>, Package |-> NilIdentifier]
    /\ remaining = {}
    /\ current = Nil
    /\ deps = NilSet
    /\ batch = [deps |-> NilSet, err |-> NoError]
    /\ extraDeps = <<>>
    /\ attrs = <<>>
    /\ printed = <<>>
    /\ outcomes = <<>>
    /\ NoIdentifiers
    /\ NoGeneration
    /\ NoPool
    /\ NoConfigs

ImportInvoke ==
    /\ Invoke({Literal(identifier)}, TRUE, "returned")
    /\ UNCHANGED resolveVars
    /\ UNCHANGED otherVars

NextImport == ImportInvoke

SpecImport == InitImport /\ [][NextImport]_vars

-----------------------------------------------------------------------------
(* common.LabelSet, as resolveImports and Resolve use it: a set of labels  *)
(* that never holds the label it was created for                           *)

NewLabelSet(from) == [from |-> from, labels |-> {}]
LabelSetAdd(s, l) == IF l = s.from THEN s ELSE [s EXCEPT !.labels = @ \cup {l}]
LabelSetEmpty(s) == s.labels = {}
LabelSetLabels(s) == s.labels

-----------------------------------------------------------------------------
(* parser.go, part_002: import statements *)

\* parser.ImportStatement
ImportHeader(id, isStarImport, alias) ==
    [identifier |-> id, isStarImport |-> isStarImport, alias |-> alias]

\* parser.ImportStatement.String
ImportString(h) ==
    IF h.alias # Nil THEN Literal(h.identifier) \o " as " \o h.alias
    ELSE IF h.isStarImport THEN Literal(h.identifier) \o ".*"
    ELSE Literal(h.identifier)

\* gazelle.ImportStatement
ImportStatement(sourcePath, header) ==
    [SourcePath |-> sourcePath, ImportHeader |-> header]

-----------------------------------------------------------------------------
(* resolver.go: resolveImports and Resolve *)

\* the loop goes on to the next import statement
Continue(d, out) ==
    [deps |-> d, printed |-> out, returns |-> FALSE,
     ret |-> [deps |-> NilSet, err |-> NoError]]
\* resolveImports returns from inside the loop
Return(d, out, retDeps, retErr) ==
    [deps |-> d, printed |-> out, returns |-> TRUE,
     ret |-> [deps |-> retDeps, err |-> retErr]]

\* the diagnostic printed for an import that was not found
NotFoundDiagnostic(impt) ==
    [import |-> ImportString(impt.ImportHeader), file |-> impt.SourcePath]

\* loopBody with the error of resolveImport skipped like an unknown import
loopBody_ContinuesOnError(d, out, impt, r) ==
    IF r.err # NoError \/ r.type = Resolution_NotFound
    THEN Continue(d, Append(out, NotFoundDiagnostic(impt)))
    ELSE IF r.type = Resolution_NativeKotlin \/ r.type = Resolution_None
    THEN Continue(d, out)
    ELSE IF r.label # Nil
    THEN Continue(LabelSetAdd(d, r.label), out)
    ELSE Continue(d, out)

\* loopBody leaving the loop at the first unknown import
loopBody_StopsAtNotFound(d, out, impt, r) ==
    IF r.err # NoError
    THEN Return(d, out, NilSet, r.err)
    ELSE IF r.type = Resolution_NotFound
    THEN Return(d, Append(out, NotFoundDiagnostic(impt)), d, NoError)
    ELSE IF r.type = Resolution_NativeKotlin \/ r.type = Resolution_None
    THEN Continue(d, out)
    ELSE IF r.label # Nil
    THEN Continue(LabelSetAdd(d, r.label), out)
    ELSE Continue(d, out)

\* loopBody printing nothing for an unknown import
loopBody_SilentNotFound(d, out, impt, r) ==
    IF r.err # NoError
    THEN Return(d, out, NilSet, r.err)
    ELSE IF r.type = Resolution_NotFound
    THEN Continue(d, out)
    ELSE IF r.type = Resolution_NativeKotlin \/ r.type = Resolution_None
    THEN Continue(d, out)
    ELSE IF r.label # Nil
    THEN Continue(LabelSetAdd(d, r.label), out)
    ELSE Continue(d, out)

\* the body of the range loop of resolveImports for the import statement impt,
\* r being what resolveImport returned for it: the LabelSet and the output
\* after it, and what the function returns if it returns from inside the loop
loopBody(d, out, impt, r) ==
    IF r.err # NoError
    THEN Return(d, out, NilSet, r.err)
    ELSE IF r.type = Resolution_NotFound
    THEN Continue(d, Append(out, NotFoundDiagnostic(impt)))
    ELSE IF r.type = Resolution_NativeKotlin \/ r.type = Resolution_None
    THEN Continue(d, out)
    ELSE IF r.label # Nil
    THEN Continue(LabelSetAdd(d, r.label), out)
    ELSE Continue(d, out)

\* the identifiers resolveImport can reach from id: id and its parents
RECURSIVE Chain(_)
Chain(id) == IF Parent(id) = NilIdentifier THEN {id} ELSE {id} \cup Chain(Parent(id))

\* literals an import the loop has not yielded yet can ask the collaborators about
Pending(keys) ==
    {Literal(p) : p \in UNION {Chain(importData.Imports[k].ImportHeader.identifier) : k \in keys}}

\* the identifiers import statements of the rule are drawn from
ImportPool ==
    {Identifier(<<"a">>), Identifier(<<"a", "b">>), Identifier(<<"a", "b", "b">>),
     Identifier(<<"kotlin", "a">>)} \cap Identifiers

\* the import statement of the rule's files that imports id: a plain import,
\* a star import or an import with an alias, from one of two files
StatementFor(id) ==
    LET n == Len(id.parts)
    IN  ImportStatement(IF n = 2 THEN "B.kt" ELSE "A.kt",
                        ImportHeader(id, n = 2 /\ id.parts[1] # "kotlin",
                                     IF n = 3 THEN "x" ELSE Nil))

\* target.Imports: a map from the literal to the import statement
ImportMaps ==
    { [lit \in {Literal(id) : id \in S} |->
          StatementFor(CHOOSE id \in S : Literal(id) = lit)]
      : S \in {T \in SUBSET ImportPool : Cardinality(T) <= MaxImports} }

\* the package of a test target: none declared, or a package of the repository
TestPackages == {NilIdentifier, Identifier(<<"a">>), Identifier(<<"a", "b">>)}

Kinds == {KtJvmLibrary, KtJvmBinary, KtJvmTest, "filegroup"}

Init ==
    /\ pc = "Resolve"
    /\ mavenConfigured \in BOOLEAN
    /\ kind \in Kinds
    /\ \E imports \in ImportMaps :
       \E package \in IF kind = KtJvmTest THEN TestPackages ELSE {NilIdentifier} :
           importData = [Imports |-> imports, Package |-> package]
    /\ orig = NilIdentifier
    /\ identifier = NilIdentifier
    /\ examined = 0
    /\ result = NoAnswer
    /\ answers = <<>>
    /\ caller = Nil
    /\ remaining = {}
    /\ current = Nil
    /\ deps = NilSet
    /\ batch = [deps |-> NilSet, err |-> NoError]
    /\ extraDeps = <<>>
    /\ attrs = <<>>
    /\ printed = <<>>
    /\ outcomes = <<>>
    /\ NoIdentifiers
    /\ NoGeneration
    /\ NoPool
    /\ NoConfigs

\* the call chain of resolveImport has returned and its values were consumed
returnFromResolveImport ==
    /\ orig' = NilIdentifier
    /\ identifier' = NilIdentifier
    /\ examined' = 0
    /\ result' = NoAnswer
    /\ caller' = Nil

\* kt.resolveImports(c, ix, target.importsSeq(), from) is entered
callResolveImports ==
    /\ pc' = "resolveImports"
    /\ deps' = NewLabelSet(From)
    /\ remaining' = DOMAIN importData.Imports

\* Resolve up to its first call: rules of other kinds are left alone, a test
\* first resolves its package as an import, the others go to resolveImports
ResolveStart ==
    /\ pc = "Resolve"
    /\ IF kind \notin {KtJvmLibrary, KtJvmBinary, KtJvmTest}
       THEN /\ pc' = "done"
            /\ UNCHANGED <<orig, identifier, examined, caller, deps, remaining>>
       ELSE IF kind = KtJvmTest
       THEN IF importData.Package = NilIdentifier
            THEN \* importSpecForIdentifier(nil): nil pointer dereference
                 /\ pc' = "panic"
                 /\ UNCHANGED <<orig, identifier, examined, caller, deps, remaining>>
            ELSE /\ pc' = "resolveImport"
                 /\ orig' = importData.Package
                 /\ identifier' = importData.Package
                 /\ examined' = 1
                 /\ caller' = "test"
                 /\ UNCHANGED <<deps, remaining>>
       ELSE /\ callResolveImports
            /\ UNCHANGED <<orig, identifier, examined, caller>>
    /\ UNCHANGED <<mavenConfigured, result, answers, kind, importData, current,
                   batch, extraDeps, attrs, printed, outcomes>>
    /\ UNCHANGED otherVars

\* an invocation of resolveImport under Resolve
ResolveInvoke ==
    /\ Invoke(Pending(remaining), FALSE,
              IF caller = "test" THEN "testReturned" ELSE "importReturned")
    /\ UNCHANGED resolveVars
    /\ UNCHANGED otherVars

\* TestReturn forgetting the label found for the package of the test
TestReturn_DropsLabel ==
    /\ pc = "testReturned"
    /\ IF result.err # NoError
       THEN /\ pc' = "fatal"
            /\ UNCHANGED <<extraDeps, deps, remaining>>
       ELSE /\ UNCHANGED extraDeps
            /\ callResolveImports
    /\ returnFromResolveImport
    /\ UNCHANGED <<mavenConfigured, answers, kind, importData, current, batch,
                   attrs, printed, outcomes>>
    /\ UNCHANGED otherVars

\* the implicit dependency of a test was resolved
TestReturn ==
    /\ pc = "testReturned"
    /\ IF result.err # NoError
       THEN /\ pc' = "fatal"
            /\ UNCHANGED <<extraDeps, deps, remaining>>
       ELSE /\ extraDeps' = IF result.type = Resolution_Label
                            THEN Append(extraDeps, result.label) ELSE extraDeps
            /\ callResolveImports
    /\ returnFromResolveImport
    /\ UNCHANGED <<mavenConfigured, answers, kind, importData, current, batch,
                   attrs, printed, outcomes>>
    /\ UNCHANGED otherVars

\* the range loop yields the next import statement, in any order, and calls
\* resolveImport on its identifier; after the last one resolveImports returns
LoopNext ==
    /\ pc = "resolveImports"
    /\ IF remaining = {}
       THEN /\ batch' = [deps |-> deps, err |-> NoError]
            /\ pc' = "resolved"
            /\ UNCHANGED <<orig, identifier, examined, caller, remaining, current, answers>>
       ELSE \E k \in remaining :
            /\ current' = k
            /\ remaining' = remaining \ {k}
            /\ orig' = importData.Imports[k].ImportHeader.identifier
            /\ identifier' = importData.Imports[k].ImportHeader.identifier
            /\ examined' = 1
            /\ caller' = "batch"
            /\ pc' = "resolveImport"
            /\ answers' = [lit \in DOMAIN answers \cap Pending(remaining) |-> answers[lit]]
            /\ UNCHANGED batch
    /\ UNCHANGED <<mavenConfigured, result, kind, importData, deps, extraDeps,
                   attrs, printed, outcomes>>
    /\ UNCHANGED otherVars

\* the rest of the loop body, with what resolveImport returned
LoopBody ==
    /\ pc = "importReturned"
    /\ LET b == loopBody(deps, printed, importData.Imports[current], result)
       IN  /\ deps' = b.deps
           /\ printed' = b.printed
           /\ IF b.returns
              THEN /\ batch' = b.ret
                   /\ pc' = "resolved"
              ELSE /\ pc' = "resolveImports"
                   /\ UNCHANGED batch
    /\ outcomes' = outcomes @@ (current :> result)
    /\ current' = Nil
    /\ returnFromResolveImport
    /\ UNCHANGED <<mavenConfigured, answers, kind, importData, remaining,
                   extraDeps, attrs>>
    /\ UNCHANGED otherVars

RECURSIVE AddAll(_, _)
AddAll(s, labels) ==
    IF Len(labels) = 0 THEN s ELSE AddAll(LabelSetAdd(s, Head(labels)), Tail(labels))

\* ResolveFinish setting deps whether or not there is a label
ResolveFinish_AlwaysSetsDeps ==
    /\ pc = "resolved"
    /\ IF batch.err # NoError
       THEN /\ pc' = "fatal"
            /\ UNCHANGED attrs
       ELSE LET all == AddAll(batch.deps, extraDeps)
            IN  /\ attrs' = attrs @@ ("deps" :> LabelSetLabels(all))
                /\ pc' = "done"
    /\ UNCHANGED <<mavenConfigured, orig, identifier, examined, result, answers,
                   caller, kind, importData, remaining, current, deps, batch,
                   extraDeps, printed, outcomes>>
    /\ UNCHANGED otherVars

\* Resolve after resolveImports returned
ResolveFinish ==
    /\ pc = "resolved"
    /\ IF batch.err # NoError
       THEN /\ pc' = "fatal"
            /\ UNCHANGED attrs
       ELSE LET all == AddAll(batch.deps, extraDeps)
            IN  /\ attrs' = IF ~LabelSetEmpty(all)
                            THEN attrs @@ ("deps" :> LabelSetLabels(all)) ELSE attrs
                /\ pc' = "done"
    /\ UNCHANGED <<mavenConfigured, orig, identifier, examined, result, answers,
                   caller, kind, importData, remaining, current, deps, batch,
                   extraDeps, printed, outcomes>>
    /\ UNCHANGED otherVars

Next ==
    \/ ResolveStart
    \/ ResolveInvoke
    \/ TestReturn
    \/ LoopNext
    \/ LoopBody
    \/ ResolveFinish

Spec == Init /\ [][Next]_vars

-----------------------------------------------------------------------------
(* What the claims are stated with: the run of one resolveImport call      *)

\* the call chain of resolveImport has returned to its caller
Returned == pc = "returned"

\* the identifiers the call chain was invoked on: orig and its parents, down
\* to the one the chain returned from
ExaminedIds ==
    {Identifier(SubSeq(orig.parts, 1, n)) :
        n \in Len(identifier.parts)..Len(orig.parts)}

\* what the collaborators answer for the literal of p
Given(p) == answers[Literal(p)].a

\* the places of the index matches for p that are not the rule being resolved
Others(p) ==
    {i \in DOMAIN Given(p).matches : Given(p).matches[i].Label # From}

NoOverride(p) == Given(p).override = Nil
NoMatch(p) == Given(p).matches = <<>>

\* the literal of p starts with the component name followed by a dot
StartsWith(p, name) == Len(p.parts) >= 2 /\ p.parts[1] = name

Native(p) ==
    StartsWith(p, "kotlin") \/ StartsWith(p, "kotlinx") \/ Given(p).stdlib

ArtifactFound(p) == mavenConfigured /\ Given(p).maven.err = Nil

\* none of the four steps has an answer for p
NothingFor(p) ==
    NoOverride(p) /\ NoMatch(p) /\ ~Native(p) /\ ~ArtifactFound(p)

-----------------------------------------------------------------------------
(* C1: an override directive for the literal of an identifier resolveImport *)
(* is invoked on decides the outcome: ResolvedToLabel with the label of the *)
(* directive and no error, whatever the index, the native check and the     *)
(* artifact resolver answer for that literal.                               *)
C1_OverrideWins ==
    Returned =>
        \A p \in ExaminedIds :
            ~NoOverride(p) =>
                result = Outcome(Resolution_Label, Given(p).override, NoError)

\* an override applied although the index holds two other providers, the
\* literal is native and an artifact exports it
C1_Witness ==
    /\ Returned
    /\ \E p \in ExaminedIds :
          /\ ~NoOverride(p)
          /\ Cardinality(Others(p)) >= 2
          /\ Given(p).stdlib
          /\ ArtifactFound(p)
          /\ result.type = Resolution_Label
          /\ result.label = Given(p).override

(* C2: without an override, more than one index candidate left after the    *)
(* rule being resolved is removed gives Error and no label; the error names *)
(* the literal, every candidate and the resolve directive.                  *)
C2_AmbiguityIsError ==
    Returned =>
        \A p \in ExaminedIds :
            (NoOverride(p) /\ Cardinality(Others(p)) > 1) =>
                /\ result.type = Resolution_Error
                /\ result.label = Nil
                /\ result.err # NoError
                /\ result.err.identifier = Literal(p)
                /\ \A i \in Others(p) :
                      \E j \in DOMAIN result.err.targets :
                          result.err.targets[j] = Given(p).matches[i].Label
                /\ result.err.fix = "gazelle:resolve"

\* two other providers next to the rule itself gave the error
C2_Witness ==
    /\ Returned
    /\ NoOverride(identifier)
    /\ Cardinality(Others(identifier)) = 2
    /\ Len(Given(identifier).matches) = 3
    /\ result.type = Resolution_Error
    /\ Len(result.err.targets) = 3

(* C3 as claimed: an identifier the rule being resolved provides in the     *)
(* index always has the outcome None.                                       *)
C3_SelfProvidedIsNone ==
    Returned =>
        \A p \in ExaminedIds :
            (\E i \in DOMAIN Given(p).matches : Given(p).matches[i].Label = From) =>
                result.type = Resolution_None

(* C3: without an override, an identifier whose only index matches are the  *)
(* rule being resolved itself has the outcome None, with no label and no    *)
(* error.                                                                   *)
C3_OnlySelfIsNone ==
    Returned =>
        \A p \in ExaminedIds :
            (NoOverride(p) /\ ~NoMatch(p) /\ Others(p) = {}) =>
                result = Outcome(Resolution_None, Nil, NoError)

\* the rule imports a sub-package of the package it provides itself
C3_Witness ==
    /\ Returned
    /\ Len(identifier.parts) < Len(orig.parts)
    /\ NoOverride(identifier)
    /\ Len(Given(identifier).matches) = 1
    /\ Others(identifier) = {}
    /\ result.type = Resolution_None

(* C4: without an override, exactly one index candidate left after the rule *)
(* being resolved is removed gives ResolvedToLabel with the label of that   *)
(* candidate, which is not the label of the rule being resolved.            *)
C4_SingleCandidate ==
    Returned =>
        \A p \in ExaminedIds :
            (NoOverride(p) /\ Cardinality(Others(p)) = 1) =>
                /\ result.type = Resolution_Label
                /\ result.err = NoError
                /\ result.label # From
                /\ \A i \in Others(p) : result.label = Given(p).matches[i].Label

\* the index holds the rule itself and one other provider
C4_Witness ==
    /\ Returned
    /\ NoOverride(identifier)
    /\ Len(Given(identifier).matches) = 2
    /\ Cardinality(Others(identifier)) = 1
    /\ result.type = Resolution_Label
    /\ result.label = LabelOne

(* C5: resolveImport goes on to the parent of an identifier exactly when    *)
(* the four steps have no answer for it and it has a parent, and starts     *)
(* again from the override step there: the outcome is the one found for the *)
(* prefix, and NotFound only when the import and all its prefixes failed.   *)
C5_ParentWalkUp ==
    Returned =>
        /\ \A p \in ExaminedIds \ {identifier} : NothingFor(p)
        /\ NothingFor(identifier) => Len(identifier.parts) = 1
        /\ (result.type = Resolution_NotFound) <=>
               (\A p \in ExaminedIds : NothingFor(p))
        /\ ~NoOverride(identifier) =>
               result = Outcome(Resolution_Label, Given(identifier).override, NoError)
        /\ (/\ NoOverride(identifier) /\ NoMatch(identifier)
            /\ ~Native(identifier) /\ ArtifactFound(identifier)) =>
               result = Outcome(Resolution_Label, Given(identifier).maven.label, NoError)

\* nothing known about the import itself, an artifact exports its parent
C5_Witness ==
    /\ Returned
    /\ Len(orig.parts) = 3
    /\ Len(identifier.parts) = 2
    /\ NothingFor(orig)
    /\ NoOverride(identifier) /\ NoMatch(identifier)
    /\ ArtifactFound(identifier)
    /\ result = Outcome(Resolution_Label, LabelMaven, NoError)

(* C6: for an identifier of n components resolveImport is invoked at most n *)
(* times, on the identifier and its successively shorter prefixes, never on *)
(* an identifier without components; every invocation can be carried out;   *)
(* and a one-component identifier the four steps know nothing about ends    *)
(* the walk-up with NotFound.                                               *)
C6_WalkUpTerminates ==
    /\ 1 <= examined /\ examined <= Len(orig.parts)
    /\ Len(identifier.parts) >= 1
    /\ identifier = Identifier(SubSeq(orig.parts, 1, Len(orig.parts) - examined + 1))
    /\ pc = "resolveImport" => ENABLED ImportInvoke
    /\ Returned =>
          /\ (Len(identifier.parts) = 1 /\ NothingFor(identifier)) =>
                 result = Outcome(Resolution_NotFound, Nil, NoError)
          /\ result.type = Resolution_NotFound =>
                 (Len(identifier.parts) = 1 /\ examined = Len(orig.parts))

\* the longest identifier was walked up to its first component and not found
C6_Witness ==
    /\ Returned
    /\ Len(orig.parts) = MaxParts
    /\ examined = MaxParts
    /\ Len(identifier.parts) = 1
    /\ result.type = Resolution_NotFound

-----------------------------------------------------------------------------
C8_ArtifactLookup ==
    Returned =>
        \A p \in ExaminedIds :
            (NoOverride(p) /\ NoMatch(p) /\ ~Native(p)) =>
                IF ArtifactFound(p)
                THEN result = Outcome(Resolution_Label, Given(p).maven.label, NoError)
                ELSE IF Len(p.parts) = 1
                THEN result = Outcome(Resolution_NotFound, Nil, NoError)
                ELSE p # identifier

\* the lookup failed for the import and found an artifact for its parent
C8_Witness ==
    /\ Returned
    /\ mavenConfigured
    /\ identifier = Parent(orig)
    /\ NoOverride(orig) /\ NoMatch(orig) /\ ~Native(orig)
    /\ Given(orig).maven.err = MavenError
    /\ NoOverride(identifier) /\ NoMatch(identifier) /\ ~Native(identifier)
    /\ ArtifactFound(identifier)
    /\ result = Outcome(Resolution_Label, LabelMaven, NoError)

-----------------------------------------------------------------------------
(* What the claims about Resolve are stated with *)

\* the import keys whose outcome was ResolvedToLabel
LabelKeys == {k \in DOMAIN outcomes : outcomes[k].type = Resolution_Label}

\* the import keys whose resolution ended with an error
ErrorKeys == {k \in DOMAIN outcomes : outcomes[k].err # NoError}

(* C9: when resolveImports returns without an error, every import of the    *)
(* target was resolved and the set returned holds exactly the labels of the *)
(* ResolvedToLabel outcomes, each once, without the label of the rule being *)
(* resolved; the other outcomes add nothing.                                *)
C9_BatchDependencySet ==
    (pc = "resolved" /\ batch.err = NoError) =>
        /\ remaining = {}
        /\ DOMAIN outcomes = DOMAIN importData.Imports
        /\ batch.deps # NilSet
        /\ LabelSetLabels(batch.deps) = {outcomes[k].label : k \in LabelKeys} \ {From}

\* two imports with the same label, and nothing else, give a set of one
C9_Witness ==
    /\ pc = "resolved"
    /\ batch.err = NoError
    /\ Cardinality(DOMAIN outcomes) = 2
    /\ LabelKeys = DOMAIN outcomes
    /\ \A k \in LabelKeys : outcomes[k].label = LabelOne
    /\ LabelSetLabels(batch.deps) = {LabelOne}

(* C10: an ambiguity in the resolution of an import ends the loop at once:  *)
(* resolveImports returns that error and no set, in every iteration order   *)
(* (a batch that returns without error has resolved every import without    *)
(* error), and Resolve stops the run without setting deps.                  *)
C10_AmbiguityAbortsBatch ==
    /\ \A k \in ErrorKeys :
          /\ pc \in {"resolved", "fatal"}
          /\ batch = [deps |-> NilSet, err |-> outcomes[k].err]
          /\ "deps" \notin DOMAIN attrs
    /\ (pc = "resolved" /\ batch.err = NoError) =>
          (remaining = {} /\ DOMAIN outcomes = DOMAIN importData.Imports)
    /\ pc = "fatal" => ("deps" \notin DOMAIN attrs /\ ~ENABLED Next)

\* the second import visited was ambiguous after the first gave a label
C10_Witness ==
    /\ pc = "fatal"
    /\ Cardinality(DOMAIN outcomes) = 2
    /\ Cardinality(ErrorKeys) = 1
    /\ Cardinality(LabelKeys) = 1
    /\ batch.deps = NilSet
    /\ attrs = <<>>

-----------------------------------------------------------------------------
\* the import keys whose outcome was NotFound
NotFoundKeys == {k \in DOMAIN outcomes : outcomes[k].type = Resolution_NotFound}

\* the places in the output where the import statement impt and its file are named
NamedAt(impt) ==
    {i \in DOMAIN printed :
        /\ printed[i].import = ImportString(impt.ImportHeader)
        /\ printed[i].file = impt.SourcePath}

(* C11: resolveImports prints one diagnostic, naming the import statement   *)
(* and its source file, for each import resolved to NotFound and no other   *)
(* diagnostic; the loop then goes on, so that without an ambiguity every    *)
(* import is resolved and a set is returned without error.                  *)
C11_NotFoundIsNotFatal ==
    /\ \A k \in NotFoundKeys : Cardinality(NamedAt(importData.Imports[k])) = 1
    /\ Len(printed) = Cardinality(NotFoundKeys)
    /\ (NotFoundKeys # {} /\ ErrorKeys = {}) =>
          /\ pc \in {"resolveImports", "resolveImport", "importReturned",
                     "resolved", "done"}
          /\ batch.err = NoError
          /\ (pc = "resolveImports" /\ remaining # {}) => ENABLED LoopNext
          /\ pc \in {"resolved", "done"} =>
                /\ DOMAIN outcomes = DOMAIN importData.Imports
                /\ batch.deps # NilSet

\* a star import from B.kt was not found and the other import gave a label
C11_Witness ==
    /\ pc = "resolved"
    /\ batch.err = NoError
    /\ Cardinality(DOMAIN outcomes) = 2
    /\ Cardinality(NotFoundKeys) = 1
    /\ printed = <<[import |-> "a.b.*", file |-> "B.kt"]>>
    /\ LabelSetLabels(batch.deps) = {LabelOne}

\* the labels Resolve has found: those of the imports and the implicit one
FoundLabels ==
    {outcomes[k].label : k \in LabelKeys} \cup {extraDeps[i] : i \in DOMAIN extraDeps}

(* C15: Resolve sets deps only when the labels found for the imports and    *)
(* for the package of a test, the label of the rule itself left out, are    *)
(* not empty, and then to exactly those labels; a rule whose only import is *)
(* not found has no deps.                                                   *)
C15_DepsOnlyIfNonEmpty ==
    /\ "deps" \in DOMAIN attrs =>
          (pc = "done" /\ attrs["deps"] # {} /\ attrs["deps"] = FoundLabels \ {From})
    /\ (pc = "done" /\ FoundLabels \ {From} = {}) => attrs = <<>>

\* a library whose only import, of three components, was not found
C15_Witness ==
    /\ pc = "done"
    /\ kind = KtJvmLibrary
    /\ DOMAIN importData.Imports = {"a.b.b"}
    /\ outcomes["a.b.b"].type = Resolution_NotFound
    /\ Len(printed) = 1
    /\ attrs = <<>>

(* C16: Resolve resolves the package of a test as an import and keeps the   *)
(* label of a ResolvedToLabel outcome; the deps of the test rule then hold  *)
(* that label next to the labels of the imports of the test. Rules of other *)
(* kinds get no such label.                                                 *)
C16_TestImplicitDependency ==
    /\ [][(pc = "testReturned" /\ result.err = NoError) =>
             /\ kind = KtJvmTest
             /\ orig = importData.Package
             /\ extraDeps' = IF result.type = Resolution_Label
                             THEN <<result.label>> ELSE <<>>]_vars
    /\ [](kind # KtJvmTest => extraDeps = <<>>)
    /\ []((pc = "done" /\ kind = KtJvmTest) =>
             \A l \in FoundLabels \ {From} :
                 "deps" \in DOMAIN attrs /\ l \in attrs["deps"])

\* a test with the library of its package and an artifact for its import
C16_Witness ==
    /\ pc = "done"
    /\ kind = KtJvmTest
    /\ extraDeps = <<LabelOne>>
    /\ LabelKeys # {}
    /\ \A k \in LabelKeys : outcomes[k].label = LabelMaven
    /\ attrs = ("deps" :> {LabelOne, LabelMaven})

-----------------------------------------------------------------------------
(* parser.go: Identifier values in memory. The parts of an Identifier are a *)
(* Go slice: a view of len cells of a backing array of cap cells, which     *)
(* other slices may share.                                                  *)

\* most Identifier values made in one run
MaxObjects == 4

\* the simple identifiers of this part
PartNames == {"a", "b"}

\* a slice header; the slices here all start at the first cell of their array
Slice(arr, len, cap) == [arr |-> arr, len |-> len, cap |-> cap]
NilSlice == Slice(0, 0, 0)

\* the elements seen through slice sl
Elements(h, sl) == IF sl.len = 0 THEN <<>> ELSE SubSeq(h[sl.arr], 1, sl.len)

\* a new backing array holding elems, with room for spare more
NewArray(elems, spare) == elems \o [i \in 1..spare |-> Nil]

\* Go's append(sl, elems...): in place when the capacity suffices, otherwise
\* into a new array, whose spare capacity is up to the runtime
append(h, sl, elems, spare) ==
    LET n == sl.len + Len(elems)
    IN  IF Len(elems) = 0 THEN [heap |-> h, slice |-> sl]
        ELSE IF n <= sl.cap
        THEN [heap |-> [h EXCEPT ![sl.arr] =
                           [c \in 1..sl.cap |->
                               IF c > sl.len /\ c <= n THEN elems[c - sl.len]
                               ELSE h[sl.arr][c]]],
              slice |-> Slice(sl.arr, n, sl.cap)]
        ELSE [heap |-> Append(h, NewArray(Elements(h, sl) \o elems, spare)),
              slice |-> Slice(Len(h) + 1, n, n + spare)]

\* Parent returning an identifier without components for a single component
Identifier_Parent_OffByOne(i) ==
    IF i.parts.len <= 0 THEN NilIdentifier
    ELSE [parts |-> Slice(i.parts.arr, i.parts.len - 1, i.parts.cap)]

\* Identifier.Parent on a stored identifier: i.parts[0 : len(i.parts)-1]
Identifier_Parent(i) ==
    IF i.parts.len <= 1 THEN NilIdentifier
    ELSE [parts |-> Slice(i.parts.arr, i.parts.len - 1, i.parts.cap)]

\* Child appending to the parts of its receiver
Identifier_Child_AppendsToReceiver(h, i, childComponent, spare1, spare2) ==
    LET a == append(h, i.parts, <<childComponent>>, spare2)
    IN  [heap |-> a.heap, id |-> [parts |-> a.slice]]

\* Identifier.Child on a stored identifier
Identifier_Child(h, i, childComponent, spare1, spare2) ==
    LET copied == append(h, NilSlice, Elements(h, i.parts), spare1)
        added == append(copied.heap, copied.slice, <<childComponent>>, spare2)
    IN  [heap |-> added.heap, id |-> [parts |-> added.slice]]

\* Identifier.Child on a value
Child(i, childComponent) == Identifier(Append(i.parts, childComponent))

\* an Identifier value with the way it was made
Made(id, h, op, of, name) ==
    [id |-> id, made |-> Elements(h, id.parts), op |-> op, of |-> of, name |-> name]

InitIdentifier ==
    /\ NoResolver
    /\ NoGeneration
    /\ NoPool
    /\ NoConfigs
    /\ \E parts \in SeqsUpTo(PartNames, MaxParts) \ {<<>>}, spare \in {0, 1} :
          /\ heap = <<NewArray(parts, spare)>>
          /\ ids = <<Made([parts |-> Slice(1, Len(parts), Len(parts) + spare)],
                          heap, "parsed", 0, Nil)>>
    /\ nilParents = {}

\* Parent() is called on one of the identifiers
CallParent ==
    /\ Len(ids) < MaxObjects
    /\ \E r \in DOMAIN ids :
          LET p == Identifier_Parent(ids[r].id)
          IN  IF p = NilIdentifier
              THEN /\ nilParents' = nilParents \cup {r}
                   /\ UNCHANGED <<heap, ids>>
              ELSE /\ ids' = Append(ids, Made(p, heap, "Parent", r, Nil))
                   /\ UNCHANGED <<heap, nilParents>>
    /\ UNCHANGED <<resolverVars, genVars, poolVars, configVars>>

\* Child(n) is called on one of the identifiers
CallChild ==
    /\ Len(ids) < MaxObjects
    /\ \E r \in DOMAIN ids, n \in PartNames, spare1 \in {0, 1}, spare2 \in {0, 1} :
          LET c == Identifier_Child(heap, ids[r].id, n, spare1, spare2)
          IN  /\ heap' = c.heap
              /\ ids' = Append(ids, Made(c.id, c.heap, "Child", r, n))
    /\ UNCHANGED <<resolverVars, genVars, poolVars, configVars, nilParents>>

NextIdentifier ==
    \/ CallParent
    \/ CallChild

SpecIdentifier == InitIdentifier /\ [][NextIdentifier]_vars

\* the components of the k-th identifier, as they are now
Parts(k) == Elements(heap, ids[k].id.parts)

\* all but the last element
Front(seq) == SubSeq(seq, 1, Len(seq) - 1)

C19_ChildParentRoundTrip ==
    \A k \in DOMAIN ids :
        /\ Parts(k) = ids[k].made
        /\ ids[k].op = "Child" =>
              /\ Parts(k) = Append(Parts(ids[k].of), ids[k].name)
              /\ Identifier(Parts(k)) = Child(Identifier(Parts(ids[k].of)), ids[k].name)
              /\ ids[k].id.parts.arr # ids[ids[k].of].id.parts.arr
              /\ Parent(Identifier(Parts(k))) = Identifier(Parts(ids[k].of))
        /\ (ids[k].op = "Parent" /\ ids[ids[k].of].op = "Child") =>
              LET i == ids[ids[k].of].of
              IN  /\ Parts(k) = Parts(i)
                  /\ Literal(Identifier(Parts(k))) = Literal(Identifier(Parts(i)))

\* two children of the Parent() of a.b, which shares the array of a.b, and
\* the Parent() of one of them
C19_Witness ==
    /\ Len(ids) = 4
    /\ Parts(1) = <<"a", "b">>
    /\ ids[2].op = "Parent" /\ ids[2].of = 1
    /\ ids[2].id.parts.cap > ids[2].id.parts.len
    /\ ids[3].op = "Child" /\ ids[3].of = 2 /\ ids[3].name = "a"
    /\ ids[4].op = "Child" /\ ids[4].of = 2 /\ ids[4].name = "b"
    /\ Parts(3) = <<"a", "a">> /\ Parts(4) = <<"a", "b">>

-----------------------------------------------------------------------------
(* Go strings, as generate.go, kotlin.go and config.go use them *)

\* the bytes file names are made of, in ascending order
ByteOrder == "./0123456789ABCDEFGHIJKLMNOPQRSTUVWXYZ_abcdefghijklmnopqrstuvwxyz"
UpperCase == "ABCDEFGHIJKLMNOPQRSTUVWXYZ"
LowerCase == "abcdefghijklmnopqrstuvwxyz"

CharAt(str, n) == SubSeq(str, n, n)

\* the place of the one-byte string ch in str, 0 when it is not there
IndexIn(str, ch) ==
    IF \E n \in 1..Len(str) : CharAt(str, n) = ch
    THEN CHOOSE n \in 1..Len(str) : CharAt(str, n) = ch
    ELSE 0

\* strings.Compare(a, b) < 0
RECURSIVE StringLess(_, _)
StringLess(a, b) ==
    IF Len(b) = 0 THEN FALSE
    ELSE IF Len(a) = 0 THEN TRUE
    ELSE LET x == IndexIn(ByteOrder, CharAt(a, 1))
             y == IndexIn(ByteOrder, CharAt(b, 1))
         IN  IF x # y THEN x < y
             ELSE StringLess(SubSeq(a, 2, Len(a)), SubSeq(b, 2, Len(b)))

\* strings.ToLower
RECURSIVE ToLower(_)
ToLower(str) ==
    IF Len(str) = 0 THEN ""
    ELSE LET u == IndexIn(UpperCase, CharAt(str, 1))
         IN  (IF u = 0 THEN CharAt(str, 1) ELSE CharAt(LowerCase, u))
             \o ToLower(SubSeq(str, 2, Len(str)))

\* strings.HasSuffix
HasSuffix(str, suffix) ==
    /\ Len(str) >= Len(suffix)
    /\ SubSeq(str, Len(str) - Len(suffix) + 1, Len(str)) = suffix

\* strings.TrimSuffix
TrimSuffix(str, suffix) ==
    IF HasSuffix(str, suffix) THEN SubSeq(str, 1, Len(str) - Len(suffix)) ELSE str

\* the place of the last byte ch in str, 0 when there is none
LastIndex(str, ch) ==
    LET at == {n \in 1..Len(str) : CharAt(str, n) = ch}
    IN  IF at = {} THEN 0 ELSE CHOOSE n \in at : \A m \in at : m <= n

\* path.Base and filepath.Base of a relative, clean, non-empty path
Base(file) == SubSeq(file, LastIndex(file, "/") + 1, Len(file))

\* path.Ext: from the last dot of the last element of the path
Ext(file) ==
    LET dot == LastIndex(Base(file), ".")
    IN  IF dot = 0 THEN "" ELSE SubSeq(Base(file), dot, Len(Base(file)))

\* kotlinUnquotedIdentifierRegexp.MatchString: the unanchored expression
\* matches whenever the string holds a letter or an underscore
MatchesIdentifier(str) ==
    \E n \in 1..Len(str) :
        \/ CharAt(str, n) = "_"
        \/ IndexIn(UpperCase, CharAt(str, n)) # 0
        \/ IndexIn(LowerCase, CharAt(str, n)) # 0

\* toBinaryTargetName
toBinaryTargetName(mainFile) ==
    ToLower(TrimSuffix(Base(mainFile), Ext(mainFile))) \o "_bin"

-----------------------------------------------------------------------------
(* generate.go: GenerateRules. The parse results of the files of the       *)
(* directory reach it over the results channel of parseFiles, one per file *)
(* and in any order.                                                       *)

\* most source files in one directory
MaxFiles == 2

\* a nil *parser.ParseResult, a nil *rule.File, a run-time panic
NilResult == [nil |-> "ParseResult"]
NilFile == [nil |-> "File"]
Panic == [panic |-> TRUE]

\* parser.ParseResult
ParseResult(file, imports, package, hasMain) ==
    [File |-> file, Imports |-> imports, Package |-> package, HasMain |-> hasMain]

\* the source files a directory is made of, collectSourceFiles having kept
\* the .kt and .kts files of the directory and of its plain subdirectories
FilePool == {"FooTest.kt", "Lib.kt", "Main.kt", "Main.kts", "sub/Main.kt"}

\* the import header a file of the pool has, when it has one: the files import
\* the same identifier, one of them as a star import
HeaderIn(file) == ImportHeader(Identifier(<<"a", "b">>), file = "Lib.kt", Nil)

\* what parseFile can return for a file: nil when it cannot be read, and
\* otherwise a result with or without package, imports and main function
ResultsOf(file) ==
    {NilResult} \cup
    {ParseResult(file, imports, package, hasMain) :
        imports \in {<<>>, <<HeaderIn(file)>>},
        package \in {NilIdentifier, Identifier(<<"a">>)},
        hasMain \in BOOLEAN}

\* kotlinconfig.New: the configuration of the directory
KotlinConfig(generationEnabled) ==
    [generationEnabled |-> generationEnabled, testFileSuffixes |-> <<"Test.kt">>]

\* KotlinConfig.IsTestBaseName
IsTestBaseName(c, baseName) ==
    \E n \in DOMAIN c.testFileSuffixes : HasSuffix(baseName, c.testFileSuffixes[n])

\* addImport keeping the statement a literal already has
addImports_FirstWins(imports, file, headers) ==
    [k \in DOMAIN imports \cup
            {Literal(headers[n].identifier) : n \in DOMAIN headers} |->
        IF k \in DOMAIN imports THEN imports[k]
        ELSE ImportStatement(file,
                 headers[CHOOSE n \in DOMAIN headers :
                             Literal(headers[n].identifier) = k])]

\* KotlinTarget.addImport for each import header of a parse result, in order
RECURSIVE addImports(_, _, _)
addImports(imports, file, headers) ==
    IF Len(headers) = 0 THEN imports
    ELSE LET impt == ImportStatement(file, Head(headers))
             key == Literal(impt.ImportHeader.identifier)
         IN  addImports([k \in DOMAIN imports \cup {key} |->
                            IF k = key THEN impt ELSE imports[k]],
                        file, Tail(headers))

\* NewKotlinLibTarget
NewKotlinLibTarget == [Imports |-> <<>>, Packages |-> {}, Files |-> {}]

\* NewKotlinBinTarget
NewKotlinBinTarget(file, pkg) == [Imports |-> <<>>, File |-> file, Package |-> pkg]

\* NewKotlinTestTarget
NewKotlinTestTarget(files, pkg, testClass) ==
    [Imports |-> <<>>, Files |-> files, Package |-> pkg, TestClass |-> testClass]

\* guessClassName: p.Package.Child(id) dereferences a nil package
guessClassName(p) ==
    LET name == TrimSuffix(Base(p.File), ".kt")
    IN  IF ~MatchesIdentifier(name) THEN NilIdentifier
        ELSE IF p.Package = NilIdentifier THEN Panic
        ELSE Child(p.Package, name)

\* the targets before the first parse result
NoTargets == [lib |-> NewKotlinLibTarget, bins |-> <<>>, tests |-> <<>>]

\* a range loop body that makes a binary target only while there is none
classify_OneBinary(cfg, t, p) ==
    IF p = NilResult THEN Panic
    ELSE IF IsTestBaseName(cfg, Base(p.File))
    THEN IF guessClassName(p) = Panic THEN Panic
         ELSE LET testTarget ==
                      NewKotlinTestTarget(<<p.File>>, p.Package, guessClassName(p))
              IN  [t EXCEPT !.tests = Append(@,
                      [testTarget EXCEPT !.Imports = addImports(@, p.File, p.Imports)])]
    ELSE IF p.HasMain /\ DOMAIN t.bins = {}
    THEN LET binTarget == NewKotlinBinTarget(p.File, p.Package)
         IN  [t EXCEPT !.bins = [f \in {p.File} |->
                 [binTarget EXCEPT !.Imports = addImports(@, p.File, p.Imports)]]]
    ELSE [t EXCEPT !.lib.Files = @ \cup {p.File},
                   !.lib.Packages = IF p.Package # NilIdentifier
                                    THEN @ \cup {Literal(p.Package)} ELSE @,
                   !.lib.Imports = addImports(@, p.File, p.Imports)]

\* the body of the range loop of GenerateRules for the parse result p: the
\* targets after it, or a panic; p.File dereferences a nil result
classify(cfg, t, p) ==
    IF p = NilResult THEN Panic
    ELSE IF IsTestBaseName(cfg, Base(p.File))
    THEN IF guessClassName(p) = Panic THEN Panic
         ELSE LET testTarget ==
                      NewKotlinTestTarget(<<p.File>>, p.Package, guessClassName(p))
              IN  [t EXCEPT !.tests = Append(@,
                      [testTarget EXCEPT !.Imports = addImports(@, p.File, p.Imports)])]
    ELSE IF p.HasMain
    THEN LET binTarget == NewKotlinBinTarget(p.File, p.Package)
         IN  [t EXCEPT !.bins = [f \in DOMAIN t.bins \cup {p.File} |->
                 IF f = p.File
                 THEN [binTarget EXCEPT !.Imports = addImports(@, p.File, p.Imports)]
                 ELSE t.bins[f]]]
    ELSE [t EXCEPT !.lib.Files = @ \cup {p.File},
                   !.lib.Packages = IF p.Package # NilIdentifier
                                    THEN @ \cup {Literal(p.Package)} ELSE @,
                   !.lib.Imports = addImports(@, p.File, p.Imports)]

-----------------------------------------------------------------------------
(* generate.go: the rules GenerateRules emits *)

\* rule.NewRule(kind, name), SetAttr and SetPrivateAttr(packagesKey, target)
NewRule(ruleKind, name) == [kind |-> ruleKind, name |-> name, attrs |-> <<>>, private |-> <<>>]
SetAttr(r, key, value) ==
    [r EXCEPT !.attrs = [k \in DOMAIN r.attrs \cup {key} |->
                            IF k = key THEN value ELSE r.attrs[k]]]
SetPrivateAttr(r, target) == [r EXCEPT !.private = <<target>>]

\* the zero language.GenerateResult
EmptyResult == [Gen |-> <<>>, Empty |-> <<>>, Imports |-> <<>>]

\* language.go: the kinds a generated library may replace
sourceRuleKinds == {KtJvmLibrary}

\* gazelle.ToDefaultTargetName(args, "root") for the directory of the run
DefaultTargetName == "pkg"

\* toTestTargetName
toTestTargetName(file) == ToLower(TrimSuffix(Base(file), Ext(file)))

\* gazelle.CheckCollisionErrors: a rule of the build file has the name and a
\* kind the generated rule may not replace
CheckCollisionErrors(targetName, expectedKind, possibleKinds, args) ==
    IF /\ args.File # NilFile
       /\ \E r \in args.File.Rules : r.name = targetName /\ r.kind \notin possibleKinds
    THEN [collision |-> targetName, kind |-> expectedKind]
    ELSE NoError

\* what an add...Rule function leaves and returns
Added(res, err) == [result |-> res, err |-> err]

\* a rule appended to result.Gen without its import data
Generated_RuleOnly(res, r, target) == [res EXCEPT !.Gen = Append(@, r)]

\* result.Gen = append(result.Gen, r); result.Imports = append(result.Imports, target)
Generated(res, r, target) ==
    [res EXCEPT !.Gen = Append(@, r), !.Imports = Append(@, target)]

\* addLibraryRule
addLibraryRule(targetName, target, args, isTestRule, res) ==
    LET colError == CheckCollisionErrors(targetName, KtJvmLibrary, sourceRuleKinds, args)
        srcs == SetAttr(NewRule(KtJvmLibrary, targetName), "srcs", target.Files)
        ktLibrary == SetPrivateAttr(IF isTestRule THEN SetAttr(srcs, "testonly", TRUE)
                                    ELSE srcs, target)
    IN  IF colError # NoError THEN Added(res, colError)
        ELSE IF target.Files = {}
        THEN IF args.File = NilFile THEN Added(res, NoError)
             ELSE IF \E r \in args.File.Rules :
                        r.name = targetName /\ r.kind = KtJvmLibrary
             THEN Added([res EXCEPT !.Empty =
                            Append(@, NewRule(KtJvmLibrary, targetName))], NoError)
             ELSE Added(res, NoError)
        ELSE Added(Generated(res, ktLibrary, target), NoError)

\* addBinaryRule emitting the rule before the collision check
addBinaryRule_ChecksLast(targetName, target, args, res) ==
    LET colError == CheckCollisionErrors(targetName, KtJvmBinary, {KtJvmBinary}, args)
        ktBinary == SetPrivateAttr(
                        SetAttr(NewRule(KtJvmBinary, targetName), "srcs", <<target.File>>),
                        target)
    IN  Added(Generated(res, ktBinary, target), colError)

\* addBinaryRule
addBinaryRule(targetName, target, args, res) ==
    LET colError == CheckCollisionErrors(targetName, KtJvmBinary, {KtJvmBinary}, args)
        trimmed == TrimSuffix(target.File, ".kt")
        main_class == IF target.Package # NilIdentifier
                      THEN Literal(target.Package) \o "." \o trimmed ELSE trimmed
        ktBinary == SetPrivateAttr(
                        SetAttr(SetAttr(NewRule(KtJvmBinary, targetName),
                                        "srcs", <<target.File>>),
                                "main_class", main_class),
                        target)
    IN  IF colError # NoError THEN Added(res, colError)
        ELSE Added(Generated(res, ktBinary, target), NoError)

\* addTestRule: target.TestClass.Literal() dereferences a nil test class
addTestRule(targetName, target, args, res) ==
    LET colError == CheckCollisionErrors(targetName, KtJvmTest, {KtJvmTest}, args)
    IN  IF colError # NoError THEN Added(res, colError)
        ELSE IF Len(target.Files) = 0
        THEN IF args.File = NilFile THEN Added(res, NoError)
             ELSE IF \E r \in args.File.Rules :
                        r.name = targetName /\ r.kind = KtJvmTest
             THEN Added([res EXCEPT !.Empty =
                            Append(@, NewRule(KtJvmTest, targetName))], NoError)
             ELSE Added(res, NoError)
        ELSE IF target.TestClass = NilIdentifier THEN Panic
        ELSE Added(Generated(res,
                 SetPrivateAttr(
                     SetAttr(SetAttr(NewRule(KtJvmTest, targetName), "srcs", target.Files),
                             "test_class", Literal(target.TestClass)),
                     target),
                 target), NoError)

-----------------------------------------------------------------------------
(* SpecGenerate: one call of GenerateRules *)

\* the rules a build file of the directory can hold before the run
ExistingRules ==
    {NewRule(KtJvmLibrary, DefaultTargetName), NewRule("filegroup", DefaultTargetName),
     NewRule("filegroup", "main_bin"), NewRule("filegroup", "footest")}

\* args.File: no build file, an empty one, or one with a rule
BuildFiles ==
    {NilFile, [Rules |-> {}]} \cup {[Rules |-> {r}] : r \in ExistingRules}

\* the directories GenerateRules is run on
Directories ==
    UNION {[files -> UNION {ResultsOf(f) : f \in files}] :
              files \in {F \in SUBSET FilePool : Cardinality(F) <= MaxFiles}}

InitGenerate ==
    /\ NoResolver
    /\ NoIdentifiers
    /\ NoPool
    /\ NoConfigs
    /\ gpc = "GenerateRules"
    /\ \E enabled \in BOOLEAN, file \in BuildFiles, parsed \in Directories :
          /\ \A f \in DOMAIN parsed : parsed[f] \in ResultsOf(f)
          /\ genArgs = [Config |-> KotlinConfig(enabled), File |-> file,
                        parsed |-> parsed]
          /\ arriving = DOMAIN parsed
    /\ targets = NoTargets
    /\ emitLeft = [bins |-> {}, tests |-> {}]
    /\ genResult = EmptyResult

\* GenerateRules up to the range loop: nothing is generated when disabled
GenerateStart ==
    /\ gpc = "GenerateRules"
    /\ gpc' = IF genArgs.Config.generationEnabled THEN "classify" ELSE "done"
    /\ UNCHANGED <<genArgs, arriving, targets, emitLeft, genResult>>
    /\ UNCHANGED <<resolverVars, identVars, poolVars, configVars>>

\* the range loop receives the parse result of a file and classifies it
Classify ==
    /\ gpc = "classify"
    /\ \E f \in arriving :
          LET t == classify(genArgs.Config, targets, genArgs.parsed[f])
          IN  /\ arriving' = arriving \ {f}
              /\ IF t = Panic
                 THEN gpc' = "panic" /\ UNCHANGED targets
                 ELSE targets' = t /\ UNCHANGED gpc
    /\ UNCHANGED <<genArgs, emitLeft, genResult>>
    /\ UNCHANGED <<resolverVars, identVars, poolVars, configVars>>

\* what GenerateRules does with the return of an add...Rule function: an
\* error ends the process, a panic too
AfterAdd(added, next) ==
    IF added = Panic THEN gpc' = "panic" /\ UNCHANGED genResult
    ELSE /\ genResult' = added.result
         /\ gpc' = IF added.err # NoError THEN "exit" ELSE next

\* the results channel was closed: the library rule, if the library has files
EmitLibrary ==
    /\ gpc = "classify"
    /\ arriving = {}
    /\ IF targets.lib.Files # {}
       THEN AfterAdd(addLibraryRule(DefaultTargetName, targets.lib, genArgs, FALSE,
                                    genResult), "binaries")
       ELSE gpc' = "binaries" /\ UNCHANGED genResult
    /\ emitLeft' = [bins |-> DOMAIN targets.bins, tests |-> DOMAIN targets.tests]
    /\ UNCHANGED <<genArgs, arriving, targets>>
    /\ UNCHANGED <<resolverVars, identVars, poolVars, configVars>>

\* the next binary target in the order of the rule names; targets with the
\* same name come in any order
EmitBinary ==
    /\ gpc = "binaries"
    /\ IF emitLeft.bins = {}
       THEN gpc' = "tests" /\ UNCHANGED <<emitLeft, genResult>>
       ELSE \E f \in emitLeft.bins :
               /\ \A g \in emitLeft.bins :
                     ~StringLess(toBinaryTargetName(g), toBinaryTargetName(f))
               /\ AfterAdd(addBinaryRule(toBinaryTargetName(f), targets.bins[f],
                                         genArgs, genResult), "binaries")
               /\ emitLeft' = [emitLeft EXCEPT !.bins = @ \ {f}]
    /\ UNCHANGED <<genArgs, arriving, targets>>
    /\ UNCHANGED <<resolverVars, identVars, poolVars, configVars>>

\* the next test target in the order of the file names
EmitTest ==
    /\ gpc = "tests"
    /\ IF emitLeft.tests = {}
       THEN gpc' = "done" /\ UNCHANGED <<emitLeft, genResult>>
       ELSE \E n \in emitLeft.tests :
               /\ \A m \in emitLeft.tests :
                     ~StringLess(targets.tests[m].Files[1], targets.tests[n].Files[1])
               /\ AfterAdd(addTestRule(toTestTargetName(targets.tests[n].Files[1]),
                                       targets.tests[n], genArgs, genResult), "tests")
               /\ emitLeft' = [emitLeft EXCEPT !.tests = @ \ {n}]
    /\ UNCHANGED <<genArgs, arriving, targets>>
    /\ UNCHANGED <<resolverVars, identVars, poolVars, configVars>>

NextGenerate ==
    \/ GenerateStart
    \/ Classify
    \/ EmitLibrary
    \/ EmitBinary
    \/ EmitTest

SpecGenerate == InitGenerate /\ [][NextGenerate]_vars

-----------------------------------------------------------------------------
\* GenerateRules was asked to generate and its range loop is over, or the
\* process has stopped
LoopOver ==
    genArgs.Config.generationEnabled /\ gpc \in {"binaries", "tests", "done", "exit", "panic"}

\* the files of the directory that were read and parsed
ParsedFiles == {f \in DOMAIN genArgs.parsed : genArgs.parsed[f] # NilResult}

\* the targets file f is part of
TargetsOf(f) ==
    (IF f \in targets.lib.Files THEN {<<"library">>} ELSE {})
    \cup (IF f \in DOMAIN targets.bins THEN {<<"binary", f>>} ELSE {})
    \cup {<<"test", n>> : n \in {m \in DOMAIN targets.tests :
                                   \E x \in DOMAIN targets.tests[m].Files :
                                       targets.tests[m].Files[x] = f}}

\* the kind of target the classification order gives file f
KindFor(f) ==
    IF HasSuffix(Base(f), "Test.kt") THEN "test"
    ELSE IF genArgs.parsed[f].HasMain THEN "binary"
    ELSE "library"

(* C12: after the range loop of GenerateRules every parsed file of the      *)
(* directory is in exactly one target: a test target when its base name has *)
(* the test suffix, with or without a main function; otherwise a binary     *)
(* target of its own when it has a main function; otherwise the library.    *)
C12_ClassificationOrder ==
    LoopOver =>
        \A f \in ParsedFiles :
            /\ Cardinality(TargetsOf(f)) = 1
            /\ \A t \in TargetsOf(f) : t[1] = KindFor(f)

(* C17: when some file of the directory could not be read, GenerateRules    *)
(* still receives the result of every file of the directory and puts every  *)
(* file that parsed into a target; the failure stops nothing.               *)
C17_FailuresDoNotBlock ==
    (LoopOver /\ \E f \in DOMAIN genArgs.parsed : genArgs.parsed[f] = NilResult) =>
        /\ gpc # "panic"
        /\ arriving = {}
        /\ \A f \in ParsedFiles : TargetsOf(f) # {}

\* the rules of the build file with the default name and the library kind
OldLibraryRules ==
    IF genArgs.File = NilFile THEN {}
    ELSE {r \in genArgs.File.Rules :
             r.name = DefaultTargetName /\ r.kind = KtJvmLibrary}

(* C13: when no file of the directory belongs to the library, GenerateRules *)
(* returns a deletion marker for a library rule of the default name that    *)
(* the build file holds, and no library rule; without such a rule it        *)
(* returns neither.                                                         *)
C13_DeletionMarker ==
    (gpc = "done" /\ genArgs.Config.generationEnabled /\ targets.lib.Files = {}) =>
        /\ \A n \in DOMAIN genResult.Gen : genResult.Gen[n].kind # KtJvmLibrary
        /\ {genResult.Empty[n] : n \in DOMAIN genResult.Empty}
              = {NewRule(r.kind, r.name) : r \in OldLibraryRules}

(* C14: an add...Rule function whose collision check fails returns the      *)
(* error with the generation result as it was before the call: when         *)
(* GenerateRules stops on such an error, the rules, the deletion markers    *)
(* and the import data are those of the step before. The check fails        *)
(* exactly when the build file holds a rule of that name and another kind.  *)
C14_CollisionBeforeMutation ==
    /\ [][gpc' = "exit" => (gpc # "exit" /\ genResult' = genResult)]_vars
    /\ [](gpc = "exit" =>
            /\ genArgs.File # NilFile
            /\ \E r \in genArgs.File.Rules : r.kind = "filegroup"
            /\ Len(genResult.Gen) = Len(genResult.Imports))
    /\ []((gpc = "done" /\ genArgs.Config.generationEnabled /\ genArgs.File # NilFile) =>
            \A n \in DOMAIN genResult.Gen :
                \A r \in genArgs.File.Rules :
                    r.name = genResult.Gen[n].name => r.kind = genResult.Gen[n].kind)

\* the binary rule collides after the library rule was generated
C14_Witness ==
    /\ gpc = "exit"
    /\ genArgs.File = [Rules |-> {NewRule("filegroup", "main_bin")}]
    /\ Len(genResult.Gen) = 1
    /\ genResult.Gen[1].kind = KtJvmLibrary
    /\ emitLeft.bins = {}
    /\ DOMAIN targets.bins = {"Main.kt"}

-----------------------------------------------------------------------------
(* generate.go: parseFiles. Both channels are unbuffered: a send and its   *)
(* receive are one step. A panic ends the process and with it every        *)
(* goroutine.                                                              *)

MaxWorkerCount == 12

\* a worker count without the cap
workerCount_Uncapped(n) == 1 + n \div 2

\* the number of worker goroutines for n source files
workerCount(n) ==
    IF 1 + n \div 2 < MaxWorkerCount THEN 1 + n \div 2 ELSE MaxWorkerCount

\* the iteration order of the tree set of source paths
RECURSIVE Iteration(_)
Iteration(paths) ==
    IF paths = {} THEN <<>>
    ELSE LET first == CHOOSE f \in paths : \A g \in paths : ~StringLess(g, f)
         IN  <<first>> \o Iteration(paths \ {first})

\* what parseFile can return for a file: nil when it cannot be read
parseFile(filePath) ==
    {NilResult, ParseResult(filePath, <<>>, NilIdentifier, FALSE),
     ParseResult(filePath, <<>>, Identifier(<<"a">>), FALSE)}

\* a worker goroutine in its range loop, holding nothing
Ranging == [at |-> "range", sourcePath |-> Nil, r |-> NilResult]

InitParse ==
    /\ NoResolver
    /\ NoIdentifiers
    /\ NoGeneration
    /\ NoConfigs
    /\ \E files \in {F \in SUBSET FilePool : Cardinality(F) <= MaxFiles} :
          /\ sources = Iteration(files)
          /\ disk \in [files -> UNION {parseFile(f) : f \in files}]
          /\ \A f \in files : disk[f] \in parseFile(f)
          /\ workers = [w \in 1..workerCount(Cardinality(files)) |-> Ranging]
          /\ wg = workerCount(Cardinality(files))
    /\ iterator = 0
    /\ sourcePathChannel = "open"
    /\ resultsChannel = [closes |-> 0, late |-> 0]
    /\ watcher = "wait"
    /\ taken = <<>>
    /\ received = <<>>
    /\ consumer = "range"

\* the process has not panicked
Running == consumer # "panic"

\* the dispatcher sends the next path and worker w receives it
Dispatch(w) ==
    /\ Running
    /\ sourcePathChannel = "open"
    /\ iterator < Len(sources)
    /\ workers[w].at = "range"
    /\ iterator' = iterator + 1
    /\ workers' = [workers EXCEPT ![w] =
                      [at |-> "parse", sourcePath |-> sources[iterator + 1],
                       r |-> NilResult]]
    /\ taken' = Append(taken, [path |-> sources[iterator + 1], worker |-> w])
    /\ UNCHANGED <<sources, disk, sourcePathChannel, resultsChannel, wg, watcher,
                   received, consumer>>
    /\ UNCHANGED <<resolverVars, identVars, genVars, configVars>>

\* the dispatcher closes the channel of paths after the last path
CloseWork ==
    /\ Running
    /\ sourcePathChannel = "open"
    /\ iterator = Len(sources)
    /\ sourcePathChannel' = "closed"
    /\ UNCHANGED <<sources, disk, iterator, resultsChannel, workers, wg, watcher,
                   taken, received, consumer>>
    /\ UNCHANGED <<resolverVars, identVars, genVars, configVars>>

\* worker w parses the file it holds
Parse(w) ==
    /\ Running
    /\ workers[w].at = "parse"
    /\ workers' = [workers EXCEPT ![w].at = "send",
                                  ![w].r = disk[workers[w].sourcePath]]
    /\ UNCHANGED <<sources, disk, iterator, sourcePathChannel, resultsChannel, wg,
                   watcher, taken, received, consumer>>
    /\ UNCHANGED <<resolverVars, identVars, genVars, configVars>>

\* worker w sends its result: the range loop of GenerateRules receives it
\* and runs its body, which panics on a nil result and on a test file
\* without a package; a send on a closed channel panics
Deliver(w) ==
    /\ Running
    /\ workers[w].at = "send"
    /\ IF resultsChannel.closes > 0
       THEN /\ resultsChannel' = [resultsChannel EXCEPT !.late = 1]
            /\ consumer' = "panic"
            /\ UNCHANGED <<workers, received>>
       ELSE /\ consumer = "range"
            /\ received' = Append(received, [path |-> workers[w].sourcePath,
                                             r |-> workers[w].r])
            /\ workers' = [workers EXCEPT ![w] = Ranging]
            /\ consumer' = IF classify(KotlinConfig(TRUE), NoTargets, workers[w].r) = Panic
                           THEN "panic" ELSE "range"
            /\ UNCHANGED resultsChannel
    /\ UNCHANGED <<sources, disk, iterator, sourcePathChannel, wg, watcher, taken>>
    /\ UNCHANGED <<resolverVars, identVars, genVars, configVars>>

\* a worker returning without wg.Done
WorkerExit_NoDone(w) ==
    /\ Running
    /\ workers[w].at = "range"
    /\ sourcePathChannel = "closed"
    /\ workers' = [workers EXCEPT ![w].at = "done"]
    /\ UNCHANGED <<sources, disk, iterator, sourcePathChannel, resultsChannel, wg,
                   watcher, taken, received, consumer>>
    /\ UNCHANGED <<resolverVars, identVars, genVars, configVars>>

\* the range loop of worker w ends on the closed channel: wg.Done
WorkerExit(w) ==
    /\ Running
    /\ workers[w].at = "range"
    /\ sourcePathChannel = "closed"
    /\ workers' = [workers EXCEPT ![w].at = "done"]
    /\ wg' = wg - 1
    /\ UNCHANGED <<sources, disk, iterator, sourcePathChannel, resultsChannel,
                   watcher, taken, received, consumer>>
    /\ UNCHANGED <<resolverVars, identVars, genVars, configVars>>

\* the watcher closing the channel of results without waiting
CloseResults_NoWait ==
    /\ Running
    /\ watcher = "wait"
    /\ watcher' = "done"
    /\ resultsChannel' = [resultsChannel EXCEPT !.closes = @ + 1]
    /\ UNCHANGED <<sources, disk, iterator, sourcePathChannel, workers, wg, taken,
                   received, consumer>>
    /\ UNCHANGED <<resolverVars, identVars, genVars, configVars>>

\* wg.Wait returns and the watcher closes the channel of results
CloseResults ==
    /\ Running
    /\ watcher = "wait"
    /\ wg = 0
    /\ watcher' = "done"
    /\ resultsChannel' = [resultsChannel EXCEPT !.closes = @ + 1]
    /\ UNCHANGED <<sources, disk, iterator, sourcePathChannel, workers, wg, taken,
                   received, consumer>>
    /\ UNCHANGED <<resolverVars, identVars, genVars, configVars>>

\* the range loop of GenerateRules ends on the closed channel
EndOfStream ==
    /\ consumer = "range"
    /\ resultsChannel.closes > 0
    /\ consumer' = "end"
    /\ UNCHANGED <<sources, disk, iterator, sourcePathChannel, resultsChannel,
                   workers, wg, watcher, taken, received>>
    /\ UNCHANGED <<resolverVars, identVars, genVars, configVars>>

NextParse ==
    \/ \E w \in DOMAIN workers : Dispatch(w)
    \/ CloseWork
    \/ \E w \in DOMAIN workers : Parse(w)
    \/ \E w \in DOMAIN workers : Deliver(w)
    \/ \E w \in DOMAIN workers : WorkerExit(w)
    \/ CloseResults
    \/ EndOfStream

SpecParse == InitParse /\ [][NextParse]_vars

-----------------------------------------------------------------------------
\* the paths of a log of receives
PathsOf(log) == {log[n].path : n \in DOMAIN log}

\* no path is twice in a log of receives
NoDuplicates(log) ==
    \A n, m \in DOMAIN log : n # m => log[n].path # log[m].path

(* C20: the pool of parse workers loses and duplicates nothing. No path is  *)
(* received from the channel of paths twice, only source files of the       *)
(* directory are, and all of them once that channel is closed. No file has  *)
(* two results received from the channel of results, each result is what    *)
(* parseFile returned for a path a worker took, and once that channel is    *)
(* closed every file has its one result. Nothing is sent on the closed      *)
(* channel of results, and it is closed once: never twice, and once when    *)
(* the range loop over it has ended.                                        *)
C20_NoLossNoDuplication ==
    /\ NoDuplicates(taken)
    /\ PathsOf(taken) \subseteq {sources[n] : n \in DOMAIN sources}
    /\ sourcePathChannel = "closed" => Len(taken) = Len(sources)
    /\ NoDuplicates(received)
    /\ PathsOf(received) \subseteq PathsOf(taken)
    /\ \A n \in DOMAIN received : received[n].r = disk[received[n].path]
    /\ resultsChannel.closes > 0 => Len(received) = Len(sources)
    /\ resultsChannel.late = 0
    /\ resultsChannel.closes <= 1
    /\ consumer = "end" => resultsChannel.closes = 1

\* two files, taken by two workers, both results received, stream ended
C20_Witness ==
    /\ consumer = "end"
    /\ Len(sources) = 2
    /\ Len(received) = 2
    /\ taken[1].worker # taken[2].worker
    /\ received[1].path = sources[2]

-----------------------------------------------------------------------------
(* parseFiles under the Go scheduler: a goroutine that can take a step is  *)
(* not kept from it for ever.                                              *)
SpecParseFair == SpecParse /\ WF_vars(NextParse)

\* every goroutine of parseFiles has returned and the range loop has ended
PoolEnded ==
    /\ sourcePathChannel = "closed"
    /\ \A w \in DOMAIN workers : workers[w].at = "done"
    /\ watcher = "done"
    /\ consumer = "end"

(* C21: the channel of paths is closed only after the dispatcher has sent   *)
(* every path, and the channel of results only after every worker has       *)
(* returned. Under fair scheduling, and as long as the range loop of        *)
(* GenerateRules keeps receiving (it does not panic), the dispatcher, every *)
(* worker and the watcher return and the range loop ends, for every number  *)
(* of files, none included.                                                 *)
C21_EndOfStream ==
    /\ [](sourcePathChannel = "closed" => iterator = Len(sources))
    /\ [](resultsChannel.closes > 0 =>
             /\ wg = 0
             /\ \A w \in DOMAIN workers : workers[w].at = "done")
    /\ <>(PoolEnded \/ consumer = "panic")

\* the stream ended for a directory without files and for one with two
C21_Witness ==
    /\ PoolEnded
    /\ Len(sources) = 2
    /\ Len(received) = 2
    /\ Cardinality(DOMAIN workers) = 2

-----------------------------------------------------------------------------
\* the parsed files of the directory that the classification order gives
\* to a target of the kind k
FilesOfKind(k) == {f \in ParsedFiles : KindFor(f) = k}

\* the literals the files F import
LiteralsOf(F) ==
    UNION {{Literal(genArgs.parsed[f].Imports[n].identifier) :
               n \in DOMAIN genArgs.parsed[f].Imports} : f \in F}

\* a file of the directory whose parse result makes the range loop panic
Crashing(f) ==
    \/ genArgs.parsed[f] = NilResult
    \/ /\ KindFor(f) = "test"
       /\ genArgs.parsed[f].Package = NilIdentifier
       /\ MatchesIdentifier(TrimSuffix(Base(f), ".kt"))

(* C22: the targets after the range loop of GenerateRules depend on the set *)
(* of parse results only, not on the order they arrived in: the library     *)
(* holds the files without test suffix and main function, there is one      *)
(* binary target per other file with a main function and one test target    *)
(* per file with the test suffix; the packages of the library are those of  *)
(* its files; the import map of each target has the literals its files      *)
(* import. Whether the loop panics depends on the set of results only.      *)
C22_OrderIndependence ==
    /\ gpc = "panic" => \E f \in DOMAIN genArgs.parsed : Crashing(f)
    /\ (LoopOver /\ gpc # "panic") =>
          /\ \A f \in DOMAIN genArgs.parsed : ~Crashing(f)
          /\ targets.lib.Files = FilesOfKind("library")
          /\ DOMAIN targets.bins = FilesOfKind("binary")
          /\ Len(targets.tests) = Cardinality(FilesOfKind("test"))
          /\ {targets.tests[n].Files : n \in DOMAIN targets.tests}
                = {<<f>> : f \in FilesOfKind("test")}
          /\ targets.lib.Packages =
                {Literal(genArgs.parsed[f].Package) :
                    f \in {g \in FilesOfKind("library") :
                              genArgs.parsed[g].Package # NilIdentifier}}
          /\ DOMAIN targets.lib.Imports = LiteralsOf(FilesOfKind("library"))
          /\ \A f \in DOMAIN targets.bins :
                DOMAIN targets.bins[f].Imports = LiteralsOf({f})
          /\ \A n \in DOMAIN targets.tests :
                DOMAIN targets.tests[n].Imports = LiteralsOf({targets.tests[n].Files[1]})

\* two library files importing the same literal were classified, the file
\* that comes first in the tree set having arrived last
C22_Witness ==
    /\ gpc = "binaries"
    /\ targets.lib.Files = {"Lib.kt", "Main.kt"}
    /\ DOMAIN targets.lib.Imports = {"a.b"}
    /\ targets.lib.Imports["a.b"].SourcePath = "Lib.kt"
    /\ genArgs.parsed["Main.kt"].Imports # <<>>

-----------------------------------------------------------------------------
\* the Imports map of the target that file f was put in
ImportsHolding(f) ==
    IF f \in targets.lib.Files THEN targets.lib.Imports
    ELSE IF f \in DOMAIN targets.bins THEN targets.bins[f].Imports
    ELSE targets.tests[CHOOSE n \in DOMAIN targets.tests :
                           targets.tests[n].Files = <<f>>].Imports

\* the Imports map file f will be merged into
ImportsBefore(f) ==
    IF KindFor(f) = "library" THEN targets.lib.Imports ELSE <<>>

\* the range loop takes the parse result of file f and does not panic
Classifies(f) ==
    /\ gpc = "classify"
    /\ f \in arriving
    /\ arriving' = arriving \ {f}
    /\ gpc' # "panic"

(* C23: the Imports map of a target is keyed by the literal of the imported *)
(* identifier and the last write wins. When the range loop has processed a  *)
(* file, the map of its target holds for every literal the file imports the *)
(* statement of this file, with its source path, star and alias status,     *)
(* whatever was stored for the literal before, and holds for every other    *)
(* literal what it held. After the loop every stored statement is the       *)
(* header of a file of the target, under the literal of its identifier.     *)
C23_LastWriteWins ==
    /\ [][\A f \in arriving : Classifies(f) =>
             /\ DOMAIN ImportsHolding(f)' = DOMAIN ImportsBefore(f) \cup LiteralsOf({f})
             /\ \A k \in DOMAIN ImportsHolding(f)' :
                   IF k \in LiteralsOf({f})
                   THEN /\ ImportsHolding(f)'[k].SourcePath = f
                        /\ \E n \in DOMAIN genArgs.parsed[f].Imports :
                              /\ ImportsHolding(f)'[k].ImportHeader
                                    = genArgs.parsed[f].Imports[n]
                              /\ \A m \in DOMAIN genArgs.parsed[f].Imports :
                                    (m > n) =>
                                       Literal(genArgs.parsed[f].Imports[m].identifier) # k
                   ELSE ImportsHolding(f)'[k] = ImportsBefore(f)[k]]_vars
    /\ []((LoopOver /\ gpc # "panic") =>
             \A f \in ParsedFiles : \A k \in DOMAIN ImportsHolding(f) :
                 LET st == ImportsHolding(f)[k]
                 IN  /\ Literal(st.ImportHeader.identifier) = k
                     /\ st.SourcePath \in ParsedFiles
                     /\ ImportsHolding(st.SourcePath) = ImportsHolding(f)
                     /\ \E n \in DOMAIN genArgs.parsed[st.SourcePath].Imports :
                           genArgs.parsed[st.SourcePath].Imports[n] = st.ImportHeader)

\* Lib.kt imports a.b.* and Main.kt imports a.b; Main.kt arrived last and its
\* statement replaced the star import
C23_Witness ==
    /\ gpc = "binaries"
    /\ targets.lib.Files = {"Lib.kt", "Main.kt"}
    /\ genArgs.parsed["Lib.kt"].Imports = <<HeaderIn("Lib.kt")>>
    /\ targets.lib.Imports["a.b"] = ImportStatement("Main.kt", HeaderIn("Main.kt"))
    /\ ~targets.lib.Imports["a.b"].ImportHeader.isStarImport

-----------------------------------------------------------------------------
\* the values of ResolutionType
ResolutionTypes ==
    {Resolution_Error, Resolution_None, Resolution_NotFound, Resolution_Label,
     Resolution_NativeKotlin}

(* C24: what resolveImport returns is well formed: the resolution type is   *)
(* one of Error, None, NotFound, Label and NativeKotlin; the label is not   *)
(* nil exactly when the type is Label, and is then one label; the error is  *)
(* not nil exactly when the type is Error.                                  *)
C24_OutcomeWellFormed ==
    Returned =>
        /\ DOMAIN result = {"type", "label", "err"}
        /\ result.type \in ResolutionTypes
        /\ (result.label # Nil) <=> (result.type = Resolution_Label)
        /\ result.label \in {Nil, From, LabelOne, LabelTwo, LabelMaven}
        /\ (result.err # NoError) <=> (result.type = Resolution_Error)

\* the parent of the import is ambiguous in the index: an error and no label
C24_Witness ==
    /\ Returned
    /\ examined = 2
    /\ result.type = Resolution_Error
    /\ result.label = Nil
    /\ result.err # NoError

-----------------------------------------------------------------------------
\* the prefixes of the import, the import itself included
Prefixes == {Identifier(SubSeq(orig.parts, 1, n)) : n \in 1..Len(orig.parts)}

\* the answer of the first of the four steps that has one for p
AnswerAt(p) ==
    IF ~NoOverride(p) THEN Outcome(Resolution_Label, Given(p).override, NoError)
    ELSE IF ~NoMatch(p)
    THEN IF Cardinality(Others(p)) = 0 THEN Outcome(Resolution_None, Nil, NoError)
         ELSE IF Cardinality(Others(p)) = 1
         THEN Outcome(Resolution_Label,
                      Given(p).matches[CHOOSE i \in Others(p) : TRUE].Label, NoError)
         ELSE [type |-> Resolution_Error, label |-> Nil]
    ELSE IF Native(p) THEN Outcome(Resolution_NativeKotlin, Nil, NoError)
    ELSE Outcome(Resolution_Label, Given(p).maven.label, NoError)

(* C25: the longest prefix wins. The collaborators are consulted for the    *)
(* import and then for its parents in turn, and for a parent only after     *)
(* every longer prefix has failed all four steps; what resolveImport        *)
(* returns is the answer of the first step, in the order override, index,   *)
(* native, artifact, at the longest prefix for which a step has an answer,  *)
(* and NotFound when no prefix has one. What an override or the index would *)
(* say for a shorter prefix is never asked for.                             *)
C25_LongestPrefixWins ==
    Returned =>
        /\ DOMAIN answers = {Literal(p) : p \in ExaminedIds}
        /\ \A p \in Prefixes :
              Literal(p) \in DOMAIN answers =>
                  \A q \in Prefixes : Len(q.parts) > Len(p.parts) =>
                      Literal(q) \in DOMAIN answers /\ NothingFor(q)
        /\ IF NothingFor(identifier)
           THEN /\ Len(identifier.parts) = 1
                /\ result = Outcome(Resolution_NotFound, Nil, NoError)
           ELSE /\ result.type = AnswerAt(identifier).type
                /\ result.label = AnswerAt(identifier).label
                /\ (result.err = NoError) <=> (result.type # Resolution_Error)

\* a three-component import that an artifact exports and the index does not
\* know: it resolves to the artifact and its parents are never looked up
C25_Witness ==
    /\ Returned
    /\ Len(orig.parts) = 3
    /\ identifier = orig
    /\ NoOverride(orig) /\ NoMatch(orig) /\ ~Native(orig) /\ ArtifactFound(orig)
    /\ result = Outcome(Resolution_Label, LabelMaven, NoError)
    /\ Literal(Parent(orig)) \notin DOMAIN answers

-----------------------------------------------------------------------------
\* the binary rules GenerateRules has generated
BinaryRules == {n \in DOMAIN genResult.Gen : genResult.Gen[n].kind = KtJvmBinary}

(* C26: once GenerateRules has gone through the binary targets there is one *)
(* binary rule per file with a main function, named after the lower-cased   *)
(* base name of the file without extension followed by "_bin", and the      *)
(* rules of two files have different names.                                 *)
C26_OneRulePerBinaryFile ==
    (genArgs.Config.generationEnabled /\ gpc \in {"tests", "done"}) =>
        /\ Cardinality(BinaryRules) = Cardinality(DOMAIN targets.bins)
        /\ \A f \in DOMAIN targets.bins :
              \E n \in BinaryRules :
                  /\ genResult.Gen[n].attrs["srcs"] = <<f>>
                  /\ genResult.Gen[n].name = toBinaryTargetName(f)
        /\ \A n, m \in BinaryRules :
              n # m => genResult.Gen[n].name # genResult.Gen[m].name

-----------------------------------------------------------------------------
(* C27: a file without a package declaration is handled for every kind of   *)
(* target: when every file of the directory was read and parsed,            *)
(* GenerateRules classifies the files and generates the rules without a     *)
(* panic, whether or not the files declare a package.                       *)
C27_PackageIsOptional ==
    (\A f \in DOMAIN genArgs.parsed : genArgs.parsed[f] # NilResult) =>
        gpc # "panic"

-----------------------------------------------------------------------------
\* the field that tells the type of target Resolve asserts for a rule kind
FieldOfKind(ruleKind) ==
    IF ruleKind = KtJvmLibrary THEN "Packages"
    ELSE IF ruleKind = KtJvmBinary THEN "File"
    ELSE "TestClass"

\* res and the result of an add...Rule call have the same rules and import data
SameLists(res, added) ==
    /\ added # Panic
    /\ added.result.Gen = res.Gen
    /\ added.result.Imports = res.Imports

\* a build file in which every name GenerateRules generates is a filegroup
Colliding ==
    [genArgs EXCEPT !.File =
        [Rules |-> {NewRule("filegroup", n) : n \in {DefaultTargetName, "main_bin", "footest"}}]]

\* a build file with a rule of each name and kind GenerateRules generates
Stale ==
    [genArgs EXCEPT !.File =
        [Rules |-> {NewRule(KtJvmLibrary, DefaultTargetName),
                    NewRule(KtJvmBinary, "main_bin"), NewRule(KtJvmTest, "footest")}]]

(* C28: result.Gen and result.Imports stay aligned through a generation     *)
(* pass: they have the same length, the i-th import datum is the target     *)
(* attached to the i-th rule, and it is a library, binary or test target as *)
(* the kind of the rule says. A call of addLibraryRule, addBinaryRule or    *)
(* addTestRule that returns a collision error adds to neither list, and     *)
(* neither does a call that appends a deletion marker for a target without  *)
(* files.                                                                   *)
C28_GenImportsAligned ==
    /\ Len(genResult.Gen) = Len(genResult.Imports)
    /\ \A n \in DOMAIN genResult.Gen :
          /\ genResult.Gen[n].kind \in {KtJvmLibrary, KtJvmBinary, KtJvmTest}
          /\ genResult.Gen[n].private = <<genResult.Imports[n]>>
          /\ DOMAIN genResult.Imports[n] \cap {"Packages", "File", "TestClass"}
                = {FieldOfKind(genResult.Gen[n].kind)}
    /\ LET lib == addLibraryRule(DefaultTargetName,
                                 [NewKotlinLibTarget EXCEPT !.Files = {"Lib.kt"}],
                                 Colliding, FALSE, genResult)
           bin == addBinaryRule("main_bin", NewKotlinBinTarget("Main.kt", NilIdentifier),
                                Colliding, genResult)
           test == addTestRule("footest",
                               NewKotlinTestTarget(<<"FooTest.kt">>, Identifier(<<"a">>),
                                                   Identifier(<<"a", "FooTest">>)),
                               Colliding, genResult)
       IN  /\ SameLists(genResult, lib) /\ lib.err # NoError
           /\ SameLists(genResult, bin) /\ bin.err # NoError
           /\ SameLists(genResult, test) /\ test.err # NoError
    /\ LET lib == addLibraryRule(DefaultTargetName, NewKotlinLibTarget, Stale, FALSE,
                                 genResult)
           test == addTestRule("footest",
                               NewKotlinTestTarget(<<>>, NilIdentifier, NilIdentifier),
                               Stale, genResult)
       IN  /\ SameLists(genResult, lib) /\ lib.err = NoError
           /\ Len(lib.result.Empty) = Len(genResult.Empty) + 1
           /\ SameLists(genResult, test) /\ test.err = NoError
           /\ Len(test.result.Empty) = Len(genResult.Empty) + 1

\* a library rule and a test rule were generated, each with its target
C28_Witness ==
    /\ gpc = "done"
    /\ Len(genResult.Gen) = 2
    /\ genResult.Gen[1].kind = KtJvmLibrary
    /\ genResult.Gen[2].kind = KtJvmTest
    /\ genResult.Imports = <<targets.lib, targets.tests[1]>>

-----------------------------------------------------------------------------
(* kotlinconfig/config.go: KotlinConfig objects. The parent field holds the *)
(* place of the parent object in cfgs, 0 for nil; testFileSuffixes is a Go  *)
(* slice over a backing array of the heap.                                  *)

\* most KotlinConfig objects made in one run
MaxConfigs == 4

\* kotlinconfig.New, the suffix list having been allocated
New(suffixes) ==
    [parent |-> 0, rel |-> "", generationEnabled |-> TRUE,
     testFileSuffixes |-> suffixes]

\* NewChild leaving the suffix list of the copied struct as it is
NewChild_SharesSuffixes(h, all, c, childPath, spare) ==
    [heap |-> h,
     config |-> [all[c] EXCEPT !.rel = childPath, !.parent = c]]

\* KotlinConfig.NewChild on the c-th object: the struct is copied, then rel,
\* parent and a fresh copy of the suffix list are set
NewChild(h, all, c, childPath, spare) ==
    LET cCopy == all[c]
        copied == append(h, NilSlice, Elements(h, all[c].testFileSuffixes), spare)
    IN  [heap |-> copied.heap,
         config |-> [cCopy EXCEPT !.rel = childPath, !.parent = c,
                                  !.testFileSuffixes = copied.slice]]

\* KotlinConfig.SetGenerationEnabled on the c-th object
SetGenerationEnabled(all, c, enabled) ==
    [all EXCEPT ![c].generationEnabled = enabled]

InitConfig ==
    /\ NoResolver
    /\ NoGeneration
    /\ NoPool
    /\ ids = <<>>
    /\ nilParents = {}
    /\ \E spare \in {0, 1} :
          /\ heap = <<NewArray(<<"Test.kt">>, spare)>>
          /\ cfgs = <<New(Slice(1, 1, 1 + spare))>>

\* NewChild is called on one of the configurations
CallNewChild ==
    /\ Len(cfgs) < MaxConfigs
    /\ \E c \in DOMAIN cfgs, childPath \in {"a", "a/b"}, spare \in {0, 1} :
          LET made == NewChild(heap, cfgs, c, childPath, spare)
          IN  /\ heap' = made.heap
              /\ cfgs' = Append(cfgs, made.config)
    /\ UNCHANGED <<ids, nilParents>>
    /\ UNCHANGED <<resolverVars, genVars, poolVars>>

\* SetGenerationEnabled is called on one of the configurations
CallSetGenerationEnabled ==
    /\ \E c \in DOMAIN cfgs, enabled \in BOOLEAN :
          cfgs' = SetGenerationEnabled(cfgs, c, enabled)
    /\ UNCHANGED identVars
    /\ UNCHANGED <<resolverVars, genVars, poolVars>>

NextConfig ==
    \/ CallNewChild
    \/ CallSetGenerationEnabled

SpecConfig == InitConfig /\ [][NextConfig]_vars

-----------------------------------------------------------------------------
\* the test suffixes of the c-th configuration, as they are now
SuffixesOf(c) == Elements(heap, cfgs[c].testFileSuffixes)

(* C29: a configuration made by NewChild starts with the generation flag    *)
(* and the test suffixes its parent has at that moment and points back to   *)
(* that parent; no other configuration changes. Its suffix list is a copy   *)
(* of its own: no two configurations share a backing array. A call of       *)
(* SetGenerationEnabled changes the flag of the configuration it is called  *)
(* on and nothing else, so neither a parent's nor a child's flag follows.   *)
C29_InheritanceByCopy ==
    /\ [][Len(cfgs') = Len(cfgs) + 1 =>
             LET child == cfgs'[Len(cfgs')]
             IN  /\ child.parent \in DOMAIN cfgs
                 /\ child.generationEnabled = cfgs[child.parent].generationEnabled
                 /\ Elements(heap', child.testFileSuffixes) = SuffixesOf(child.parent)
                 /\ \A c \in DOMAIN cfgs :
                       cfgs'[c] = cfgs[c] /\ SuffixesOf(c)' = SuffixesOf(c)]_vars
    /\ [][Len(cfgs') = Len(cfgs) =>
             /\ Cardinality({c \in DOMAIN cfgs : cfgs'[c] # cfgs[c]}) <= 1
             /\ \A c \in DOMAIN cfgs :
                   /\ cfgs'[c] = [cfgs[c] EXCEPT
                                     !.generationEnabled = cfgs'[c].generationEnabled]
                   /\ SuffixesOf(c)' = SuffixesOf(c)]_vars
    /\ [](\A c, d \in DOMAIN cfgs :
             c # d => cfgs[c].testFileSuffixes.arr # cfgs[d].testFileSuffixes.arr)
    /\ [](\A c \in DOMAIN cfgs : cfgs[c].parent < c /\ SuffixesOf(c) = <<"Test.kt">>)

\* a child made while its parent was disabled, enabled afterwards, and a
\* grandchild made from it and disabled: three flags in a row that differ
C29_Witness ==
    /\ Len(cfgs) = 3
    /\ cfgs[2].parent = 1 /\ cfgs[3].parent = 2
    /\ ~cfgs[1].generationEnabled
    /\ cfgs[2].generationEnabled
    /\ ~cfgs[3].generationEnabled

-----------------------------------------------------------------------------
(* generate.go: the start of parseFiles, up to its return *)

\* most source files of a directory when only the start is followed
MaxSources == 30

InitStart ==
    /\ NoResolver
    /\ NoIdentifiers
    /\ NoGeneration
    /\ NoConfigs
    /\ \E n \in 0..MaxSources :
          LET files == {"F" \o ToString(i) \o ".kt" : i \in 1..n}
          IN  /\ sources = Iteration(files)
              /\ disk = [f \in files |-> ParseResult(f, <<>>, NilIdentifier, FALSE)]
    /\ workers = <<>>
    /\ wg = 0
    /\ iterator = 0
    /\ sourcePathChannel = "open"
    /\ resultsChannel = [closes |-> 0, late |-> 0]
    /\ watcher = "idle"
    /\ taken = <<>>
    /\ received = <<>>
    /\ consumer = "idle"

\* one pass of the loop that starts the workers: wg.Add(1) and go func()
StartWorker ==
    /\ watcher = "idle"
    /\ Len(workers) < workerCount(Len(sources))
    /\ wg' = wg + 1
    /\ workers' = Append(workers, Ranging)
    /\ UNCHANGED <<sources, disk, iterator, sourcePathChannel, resultsChannel,
                   watcher, taken, received, consumer>>
    /\ UNCHANGED <<resolverVars, identVars, genVars, configVars>>

\* the loop is over: the dispatcher and the watcher are started and
\* parseFiles returns the channel of results to the range loop
StartOthers ==
    /\ watcher = "idle"
    /\ Len(workers) >= workerCount(Len(sources))
    /\ watcher' = "wait"
    /\ consumer' = "range"
    /\ UNCHANGED <<sources, disk, iterator, sourcePathChannel, resultsChannel,
                   workers, wg, taken, received>>
    /\ UNCHANGED <<resolverVars, identVars, genVars, configVars>>

NextStart ==
    \/ StartWorker
    \/ StartOthers

SpecStart == InitStart /\ [][NextStart]_vars

(* C30: parseFiles starts min(12, 1 + n/2) workers for n source files, the  *)
(* division being that of integers: one worker at least, for a directory    *)
(* without files too, twelve at most, and 1 + n/2 when that is less than    *)
(* twelve; the wait group counts them.                                      *)
C30_WorkerCount ==
    /\ wg = Len(workers)
    /\ Len(workers) <= 12
    /\ Len(workers) <= 1 + Len(sources) \div 2
    /\ watcher = "wait" =>
          /\ Len(workers) >= 1
          /\ Len(workers) = 12 \/ Len(workers) = 1 + Len(sources) \div 2

\* twelve workers for thirty files, where 1 + n/2 is sixteen
C30_Witness ==
    /\ watcher = "wait"
    /\ Len(sources) = 30
    /\ Len(workers) = 12
    /\ wg = 12

====
